---- MODULE Spec2Model ----
(***************************************************************************)
(* Model of the LZA account creation workflow: the execution namer and the *)
(* two run starters (API Lambda and CLI), the accounts-config merge, the   *)
(* organizational-unit check, and the gate / create-account states of the  *)
(* workflow run against one shared deployment pipeline.                    *)
(***************************************************************************)
EXTENDS Integers, Sequences, FiniteSets, TLC

VARIABLES
    \* ---- execution namer, called as a function -------------------------
    existing,        \* names of the runs list_executions returns
    namer_call,      \* last call of generate_sf_exec_name: arguments, result
    \* ---- run starters ---------------------------------------------------
    executions,      \* run names the executor has accepted
    st_pc,           \* position of each starter
    st_account,      \* account_name of each starter
    sf_exec_name,    \* name each starter will try next
    exec_count,      \* retry counter of each starter
    \* ---- accounts-config merge and organizational-unit check -----------
    accounts_file,   \* accounts-config.yaml as stored: layout and content
    org_file,        \* organization-config.yaml as stored (content)
    merge_result,    \* last helper call: arguments, file before, outcome
    \* ---- workflow runs against the shared pipeline ----------------------
    env,             \* environment of the CheckForRunningProcesses Lambda
    lza_pipeline_source, \* where the config lives: "S3" or "CodeCommit"
    store_rev,       \* number of writes the shared config store has taken
    decommission_pages,  \* pages of build statuses of the decommission project
    pipeline_execs,  \* status of each pipeline execution, by execution id
    run_pc,          \* state each workflow run is in
    run_info,        \* AccountInfo of each run
    run_local,       \* working copy of each run: revision fetched, file
    payload,         \* payload each run carries forward
    \* ---- single steps of the workflow, called on their own --------------
    status_call,     \* last call of HelperCodePipeline.status: arguments, result
    gas_call,        \* last invocation of the GetAccountStatus Lambda: event, result
    agg_call,        \* last evaluation of the ValidationStatus rule: results, status
    val_call,        \* last invocation of the ValidateResources Lambda: event, result
    \* ---- the ValidateAdGroupSyncToSSO loop of one run -------------------
    identity_store,  \* Identity Center: its instances, the pages of its groups
    ad_run,          \* the run: state it is in, payload it carries, error
    \* ---- further handlers, called on their own --------------------------
    gate_call,       \* last invocation of the CheckForRunningProcesses Lambda
    create_call,     \* last invocation of the CreateAccount Lambda
    respond_call,    \* last invocation of the ReturnResponse Lambda
    \* ---- one run of the state machine under the executor ----------------
    wf_run,          \* state it is in, execution status, minutes elapsed, ...
    \* ---- the payload handed from state to state -------------------------
    frame_run,       \* state the run is in, payload, what the last state got
    \* ---- the RunStepFunction API handler --------------------------------
    api_call         \* last invocation: event, services, what it returned

namerVars == <<existing, namer_call>>
startVars == <<executions, st_pc, st_account, sf_exec_name, exec_count>>
mergeVars == <<accounts_file, org_file, merge_result>>
gateVars == <<env, lza_pipeline_source, store_rev, decommission_pages, pipeline_execs,
              run_pc, run_info, run_local, payload>>
stepVars == <<status_call, gas_call, agg_call, val_call, identity_store, ad_run>>
callVars == <<gate_call, create_call, respond_call, wf_run>>
lateVars == <<frame_run, api_call>>
vars == <<namerVars, startVars, mergeVars, gateVars, stepVars, callVars, lateVars>>

\* what the actions of one component leave alone
notNamerVars == <<startVars, mergeVars, gateVars, stepVars, callVars, lateVars>>
notStartVars == <<namerVars, mergeVars, gateVars, stepVars, callVars, lateVars>>
notMergeVars == <<namerVars, startVars, gateVars, stepVars, callVars, lateVars>>
notStepVars == <<namerVars, startVars, mergeVars, gateVars, callVars, lateVars>>
notCallVars == <<namerVars, startVars, mergeVars, gateVars, stepVars, lateVars>>

(***************************************************************************)
(* Strings.  Python's str(n), str.zfill and the substring test `a in b`.   *)
(***************************************************************************)
Digit(d) == SubSeq("0123456789", d + 1, d + 1)

RECURSIVE PyStr(_)
PyStr(n) == IF n < 10 THEN Digit(n) ELSE PyStr(n \div 10) \o Digit(n % 10)

ZfillNoPad(s, width) == s

RECURSIVE zfill(_, _)
zfill(s, width) == IF Len(s) >= width THEN s ELSE zfill("0" \o s, width)

PyIn(sub, s) ==
    \E i \in 1..(Len(s) - Len(sub) + 1) : SubSeq(s, i, i + Len(sub) - 1) = sub

(***************************************************************************)
(* generate_sf_exec_name: count the listed runs whose name contains the    *)
(* account name, and suffix the account name with that count.              *)
(***************************************************************************)
MatchCount(account_name, listed) ==
    Cardinality({ex \in listed : PyIn(account_name, ex)})

generate_sf_exec_name(account_name, listed) ==
    LET count == MatchCount(account_name, listed)
    IN  IF count > 0
        THEN account_name \o "-" \o zfill(PyStr(count), 2)
        ELSE account_name

\* Name used after the executor rejected a name: f"{account_name}-{count:02}"
RetrySameName(account_name, count, current) == current

RetryName(account_name, count, current) ==
    account_name \o "-" \o zfill(PyStr(count), 2)

(***************************************************************************)
(* Inputs                                                                  *)
(***************************************************************************)
AccountNames == {"Fin", "Finance"}

BulkSize == 9

\* Finance-01 .. Finance-<BulkSize>: a history of earlier runs
BulkRuns == {"Finance-" \o zfill(PyStr(i), 2) : i \in 1..BulkSize}

ListedUniverse == {"Fin", "Finance", "Finance-01", "Finance-02", "FinanceDept", "Dev"}

ExistingSets == {S \cup B : S \in SUBSET ListedUniverse, B \in {{}, BulkRuns}}

NoCall == [account_name |-> "", listed |-> {}, name |-> ""]

StartIdle ==
    /\ executions = {}
    /\ st_pc = <<>>
    /\ st_account = <<>>
    /\ sf_exec_name = <<>>
    /\ exec_count = <<>>

NoMerge == [op |-> "none"]

MergeIdle ==
    /\ accounts_file = [layout |-> "authored", workloadAccounts |-> <<>>]
    /\ org_file = [organizationalUnits |-> <<>>]
    /\ merge_result = NoMerge

Unused == [op |-> "none"]

StatusIdle == status_call = Unused

GasIdle == gas_call = Unused

AggIdle == agg_call = Unused

ValIdle == val_call = Unused

AdIdle == identity_store = Unused /\ ad_run = Unused

StepIdle == StatusIdle /\ GasIdle /\ AggIdle /\ ValIdle /\ AdIdle

GateCallIdle == gate_call = Unused

CreateCallIdle == create_call = Unused

RespondCallIdle == respond_call = Unused

WfIdle == wf_run = Unused

FrameIdle == frame_run = Unused

ApiIdle == api_call = Unused

CallIdleBut == GateCallIdle /\ CreateCallIdle /\ RespondCallIdle /\ WfIdle

CallIdle ==
    GateCallIdle /\ CreateCallIdle /\ RespondCallIdle /\ WfIdle /\ FrameIdle /\ ApiIdle

GateIdle ==
    /\ env = [LZA_PIPELINE_NAME |-> "", ACCOUNT_DECOMMISSION_PROJECT_NAME |-> ""]
    /\ lza_pipeline_source = "S3"
    /\ store_rev = 0
    /\ decommission_pages = <<>>
    /\ pipeline_execs = <<>>
    /\ run_pc = <<>>
    /\ run_info = <<>>
    /\ run_local = <<>>
    /\ payload = <<>>

(***************************************************************************)
(* Specification of the namer as a function of its inputs                  *)
(***************************************************************************)
InitNamer ==
    /\ existing \in ExistingSets
    /\ namer_call = NoCall
    /\ StartIdle
    /\ MergeIdle
    /\ GateIdle
    /\ StepIdle
    /\ CallIdle

CallGenerate ==
    /\ \E account_name \in AccountNames :
          namer_call' = [account_name |-> account_name,
                         listed       |-> existing,
                         name         |-> generate_sf_exec_name(account_name, existing)]
    /\ UNCHANGED <<existing, notNamerVars>>

NextNamer == CallGenerate

SpecNamer == InitNamer /\ [][NextNamer]_vars

(***************************************************************************)
(* C2: for every base name B and every listed set S the returned name is   *)
(* not in S, and when B is not in S the returned name is B.                *)
(***************************************************************************)
C2_NameNotListed ==
    namer_call # NoCall =>
        /\ namer_call.name \notin namer_call.listed
        /\ (namer_call.account_name \notin namer_call.listed
               => namer_call.name = namer_call.account_name)

(***************************************************************************)
(* C3: the result is the base name when no listed name contains it, else   *)
(* the base name, a '-', and the number of listed names containing it      *)
(* written with at least two decimal digits (one match: 'Finance-01').     *)
(***************************************************************************)
DigitValue(ch) == CHOOSE d \in 0..9 : SubSeq("0123456789", d + 1, d + 1) = ch

RECURSIVE DecimalValue(_)
DecimalValue(s) ==
    IF Len(s) = 0 THEN 0
    ELSE 10 * DecimalValue(SubSeq(s, 1, Len(s) - 1)) + DigitValue(SubSeq(s, Len(s), Len(s)))

C3_NameFormat ==
    namer_call # NoCall =>
        LET B == namer_call.account_name
            r == namer_call.name
            c == Cardinality({n \in namer_call.listed : PyIn(B, n)})
            suffix == SubSeq(r, Len(B) + 2, Len(r))
        IN  /\ c = 0 => r = B
            /\ c > 0 => /\ SubSeq(r, 1, Len(B)) = B
                        /\ SubSeq(r, Len(B) + 1, Len(B) + 1) = "-"
                        /\ Len(suffix) = (IF c < 100 THEN 2 ELSE 3)
                        /\ DecimalValue(suffix) = c
            /\ (B = "Finance" /\ c = 1) => r = "Finance-01"

C3_Witness ==
    /\ namer_call.account_name = "Finance"
    /\ namer_call.listed = {"Finance", "Dev"}
    /\ namer_call.name = "Finance-01"

(***************************************************************************)
(* Run starters.  Each starter lists the runs and picks a name, then calls *)
(* start_execution in a loop.  The executor accepts a name at most once.   *)
(* api*: the RunStepFunction Lambda; cli*: the run-stepfunction.py script. *)
(***************************************************************************)
ApiStarters == {"api1", "api2"}
CliStarters == {"cli1"}
Starters == ApiStarters \cup CliStarters

StartedUniverse == {"Fin", "Finance", "Finance-01", "Fin-01"}

\* No starter needs more retries than there are names taken; the guard only
\* keeps the state space finite.
MaxRetry == Cardinality(StartedUniverse) + Cardinality(Starters) + 1

NamerIdle ==
    /\ existing = {}
    /\ namer_call = NoCall

InitStart ==
    /\ executions \in SUBSET StartedUniverse
    /\ st_account \in [Starters -> AccountNames]
    /\ st_pc = [p \in Starters |-> "generate"]
    /\ sf_exec_name = [p \in Starters |-> ""]
    /\ exec_count = [p \in Starters |-> 0]
    /\ NamerIdle
    /\ MergeIdle
    /\ GateIdle
    /\ StepIdle
    /\ CallIdle

\* sf_exec_name = generate_sf_exec_name(...); exec_count = 0
GenerateName(p) ==
    /\ st_pc[p] = "generate"
    /\ sf_exec_name' = [sf_exec_name EXCEPT ![p] =
                            generate_sf_exec_name(st_account[p], executions)]
    /\ st_pc' = [st_pc EXCEPT ![p] = "start"]
    /\ UNCHANGED <<executions, st_account, exec_count, notStartVars>>

ApiGenerateName(p) == p \in ApiStarters /\ GenerateName(p)

CliGenerateName(p) == p \in CliStarters /\ GenerateName(p)

\* start_execution accepted the name: the loop breaks
StartAccepted(p) ==
    /\ st_pc[p] = "start"
    /\ sf_exec_name[p] \notin executions
    /\ executions' = executions \cup {sf_exec_name[p]}
    /\ st_pc' = [st_pc EXCEPT ![p] = "started"]
    /\ UNCHANGED <<st_account, sf_exec_name, exec_count, notStartVars>>

\* except ExecutionAlreadyExists: count up, try f"{account_name}-{count:02}"
ApiAlreadyExists(p) ==
    /\ st_pc[p] = "start"
    /\ sf_exec_name[p] \in executions
    /\ exec_count[p] < MaxRetry
    /\ exec_count' = [exec_count EXCEPT ![p] = exec_count[p] + 1]
    /\ sf_exec_name' = [sf_exec_name EXCEPT ![p] =
                            RetryName(st_account[p], exec_count[p] + 1, sf_exec_name[p])]
    /\ UNCHANGED <<executions, st_pc, st_account, notStartVars>>

\* The script's except clause names sf_client.exceptions.ExecutionAlreadyExistsx,
\* which the client does not have: looking it up raises AttributeError, the
\* outer `except Exception` logs it and the script ends without a run.
CliAlreadyExists(p) ==
    /\ st_pc[p] = "start"
    /\ sf_exec_name[p] \in executions
    /\ st_pc' = [st_pc EXCEPT ![p] = "failed"]
    /\ UNCHANGED <<executions, st_account, sf_exec_name, exec_count, notStartVars>>

ApiStartExecution(p) ==
    /\ p \in ApiStarters
    /\ \/ StartAccepted(p)
       \/ ApiAlreadyExists(p)

CliStartExecution(p) ==
    /\ p \in CliStarters
    /\ \/ StartAccepted(p)
       \/ CliAlreadyExists(p)

NextStart ==
    \E p \in Starters :
        \/ ApiGenerateName(p)
        \/ ApiStartExecution(p)
        \/ CliGenerateName(p)
        \/ CliStartExecution(p)

SpecStart == InitStart /\ [][NextStart]_vars

\* A running handler or script keeps running: each starter takes its next step.
FairSpecStart ==
    /\ SpecStart
    /\ \A p \in Starters :
          /\ WF_vars(ApiGenerateName(p))
          /\ WF_vars(ApiStartExecution(p))
          /\ WF_vars(CliGenerateName(p))
          /\ WF_vars(CliStartExecution(p))

(***************************************************************************)
(* C4: two concurrent API start requests with the same base name both end  *)
(* with a started run, and the two runs carry different names.             *)
(***************************************************************************)
C4_BothStartedDistinct ==
    \A p, q \in ApiStarters :
        (p # q /\ st_account[p] = st_account[q]) =>
            <>[](/\ st_pc[p] = "started"
                 /\ st_pc[q] = "started"
                 /\ sf_exec_name[p] # sf_exec_name[q]
                 /\ {sf_exec_name[p], sf_exec_name[q]} \subseteq executions)

\* both requests picked the same name from the same listing; one was rejected
C4_Witness ==
    /\ st_account["api1"] = st_account["api2"]
    /\ st_pc["api1"] = "started"
    /\ st_pc["api2"] = "started"
    /\ exec_count["api1"] = 0
    /\ exec_count["api2"] > 0
    /\ sf_exec_name["api1"] # sf_exec_name["api2"]

(***************************************************************************)
(* C5: whenever start_execution rejects the chosen name, the starter (API  *)
(* or CLI) increments its counter and retries with '{base}-{counter:02d}', *)
(* so no starter ends without a started run.                               *)
(***************************************************************************)
C5_RetryOnReject ==
    [][\A p \in Starters :
          (/\ st_pc[p] = "start"
           /\ sf_exec_name[p] \in executions
           /\ <<st_pc[p], sf_exec_name[p], exec_count[p]>>' #
                  <<st_pc[p], sf_exec_name[p], exec_count[p]>>)
          => /\ exec_count'[p] = exec_count[p] + 1
             /\ sf_exec_name'[p] = st_account[p] \o "-" \o
                    (IF exec_count'[p] < 10 THEN "0" ELSE "") \o PyStr(exec_count'[p])
             /\ st_pc'[p] = "start"]_vars

(***************************************************************************)
(* accounts-config.yaml merge (update_account_config_file) and the         *)
(* organizational-unit check (validate_ou_in_config).                      *)
(* A stored YAML file is its content plus its layout (comments, key order, *)
(* quoting): yaml.safe_load keeps the content only, yaml.dump writes the   *)
(* content in PyYAML's own layout.                                         *)
(***************************************************************************)
safe_load(file) == [workloadAccounts |-> file.workloadAccounts]

dump(account_config) ==
    [layout |-> "dumped", workloadAccounts |-> account_config.workloadAccounts]

config_info(account_info) ==
    [name               |-> account_info.AccountName,
     description        |-> account_info.AccountName,
     email              |-> account_info.AccountEmail,
     organizationalUnit |-> account_info.ManagedOrganizationalUnit]

\* the enumerate loop: index (from 0) of the last item with that name, or -1
UpdateIndexNeverFound(workloadAccounts, name) == 0 - 1

update_index(workloadAccounts, name) ==
    LET matches == {i \in 1..Len(workloadAccounts) : workloadAccounts[i].name = name}
    IN  IF matches = {} THEN 0 - 1
        ELSE (CHOOSE i \in matches : \A j \in matches : j <= i) - 1

\* account_config['workloadAccounts'][update_index] = config_info
OverwriteMovesToEnd(workloadAccounts, index, info) ==
    Append(SelectSeq(workloadAccounts, LAMBDA item : item.name # info.name), info)

Overwrite(workloadAccounts, index, info) ==
    [workloadAccounts EXCEPT ![index + 1] = info]

\* variant that dumps the loaded document before looking for the name
UpdateDumpsBeforeRaise(file, account_info, force_update) ==
    LET account_config == safe_load(file)
        info  == config_info(account_info)
        index == update_index(account_config.workloadAccounts, info.name)
    IN  IF index >= 0 /\ force_update
        THEN [outcome |-> "ok",
              file |-> dump([workloadAccounts |->
                               Overwrite(account_config.workloadAccounts, index, info)])]
        ELSE IF index >= 0 /\ ~force_update
        THEN [outcome |-> "MatchingAccountNameInConfigException",
              file |-> dump(account_config)]
        ELSE [outcome |-> "ok",
              file |-> dump([workloadAccounts |->
                               Append(account_config.workloadAccounts, info)])]

\* variant whose force branch appends instead of overwriting
UpdateForceAppends(file, account_info, force_update) ==
    LET account_config == safe_load(file)
        info  == config_info(account_info)
        index == update_index(account_config.workloadAccounts, info.name)
    IN  IF index >= 0 /\ ~force_update
        THEN [outcome |-> "MatchingAccountNameInConfigException", file |-> file]
        ELSE [outcome |-> "ok",
              file |-> dump([workloadAccounts |->
                               Append(account_config.workloadAccounts, info)])]

\* Result: the outcome (ok, or the exception raised) and the file afterwards.
\* The file is written only on the paths that reach the final open(..., 'w').
update_account_config_file(file, account_info, force_update) ==
    LET account_config == safe_load(file)
        info  == config_info(account_info)
        index == update_index(account_config.workloadAccounts, info.name)
    IN  IF index >= 0 /\ force_update
        THEN [outcome |-> "ok",
              file |-> dump([workloadAccounts |->
                               Overwrite(account_config.workloadAccounts, index, info)])]
        ELSE IF index >= 0 /\ ~force_update
        THEN [outcome |-> "MatchingAccountNameInConfigException", file |-> file]
        ELSE [outcome |-> "ok",
              file |-> dump([workloadAccounts |->
                               Append(account_config.workloadAccounts, info)])]

ValidateOuAlwaysOk(file, target_ou_name) == "ok"

validate_ou_in_config(file, target_ou_name) ==
    LET config_orgs == {file.organizationalUnits[i].name :
                            i \in 1..Len(file.organizationalUnits)}
    IN  IF target_ou_name \notin config_orgs
        THEN "MissingOrganizationalUnitConfigException"
        ELSE "ok"

\* ---- inputs ------------------------------------------------------------
MergeNames == AccountNames \cup {"Dev"}
OuNames == {"OldOU", "NewOU"}
TargetOuNames == OuNames \cup {"Sandbox"}

\* an entry as an operator wrote it into the file by hand
Authored(name) ==
    [name |-> name, description |-> "authored", email |-> "old@example.com",
     organizationalUnit |-> "OldOU"]

MaxAuthored == 3

\* hand-written documents: entries with pairwise different names
AuthoredDocs ==
    {d \in UNION {[1..n -> {Authored(name) : name \in MergeNames}] : n \in 0..MaxAuthored} :
        \A i, j \in 1..Len(d) : i # j => d[i].name # d[j].name}

OrgFiles ==
    {[organizationalUnits |-> ous] :
        ous \in {<<>>,
                 <<[name |-> "OldOU"]>>,
                 <<[name |-> "OldOU"], [name |-> "NewOU"]>>,
                 <<[name |-> "Sandbox"], [name |-> "NewOU"]>>}}

AccountInfos ==
    [AccountName : MergeNames, AccountEmail : {"new@example.com"},
     ManagedOrganizationalUnit : OuNames]

\* keeps the document finite
MaxEntries == 4

InitMerge ==
    /\ accounts_file \in {[layout |-> "authored", workloadAccounts |-> d] : d \in AuthoredDocs}
    /\ org_file \in OrgFiles
    /\ merge_result = NoMerge
    /\ NamerIdle
    /\ StartIdle
    /\ GateIdle
    /\ StepIdle
    /\ CallIdle

UpdateAccountConfigFile ==
    /\ Len(accounts_file.workloadAccounts) < MaxEntries
    /\ \E account_info \in AccountInfos, force_update \in BOOLEAN :
          LET r == update_account_config_file(accounts_file, account_info, force_update)
          IN  /\ accounts_file' = r.file
              /\ merge_result' = [op           |-> "update_account_config_file",
                                  account_info |-> account_info,
                                  force_update |-> force_update,
                                  before       |-> accounts_file,
                                  outcome      |-> r.outcome]
    /\ UNCHANGED <<org_file, notMergeVars>>

ValidateOuInConfig ==
    /\ \E target_ou_name \in TargetOuNames :
          merge_result' = [op             |-> "validate_ou_in_config",
                           target_ou_name |-> target_ou_name,
                           outcome        |-> validate_ou_in_config(org_file, target_ou_name)]
    /\ UNCHANGED <<accounts_file, org_file, notMergeVars>>

NextMerge ==
    \/ UpdateAccountConfigFile
    \/ ValidateOuInConfig

SpecMerge == InitMerge /\ [][NextMerge]_vars

Names(workloadAccounts) ==
    {workloadAccounts[i].name : i \in 1..Len(workloadAccounts)}

IsUpdate(call) == call.op = "update_account_config_file"

(***************************************************************************)
(* C6: update_account_config_file with force_update false for a name that  *)
(* is already in the document raises MatchingAccountNameInConfigException  *)
(* and leaves the stored file exactly as it was (layout and content).      *)
(***************************************************************************)
C6_DuplicateRaisesNoWrite ==
    (/\ IsUpdate(merge_result)
     /\ ~merge_result.force_update
     /\ \E i \in 1..Len(merge_result.before.workloadAccounts) :
            merge_result.before.workloadAccounts[i].name
                = merge_result.account_info.AccountName)
    => /\ merge_result.outcome = "MatchingAccountNameInConfigException"
       /\ accounts_file = merge_result.before

\* existing {Finance, OldOU}, new {Finance, NewOU}: OldOU is still there
C6_Witness ==
    /\ IsUpdate(merge_result)
    /\ ~merge_result.force_update
    /\ merge_result.account_info.AccountName = "Finance"
    /\ merge_result.account_info.ManagedOrganizationalUnit = "NewOU"
    /\ merge_result.outcome = "MatchingAccountNameInConfigException"
    /\ accounts_file.layout = "authored"
    /\ \E i \in 1..Len(accounts_file.workloadAccounts) :
          /\ accounts_file.workloadAccounts[i].name = "Finance"
          /\ accounts_file.workloadAccounts[i].organizationalUnit = "OldOU"

(***************************************************************************)
(* C7: with force_update true the merge is idempotent: merging the same    *)
(* entry a second time leaves the file as the first merge wrote it,        *)
(* whether or not the name was in the document before the first merge.     *)
(***************************************************************************)
C7_ForceUpdateIdempotent ==
    [][(/\ IsUpdate(merge_result)
        /\ merge_result.force_update
        /\ merge_result.outcome = "ok"
        /\ IsUpdate(merge_result')
        /\ merge_result'.force_update
        /\ merge_result'.account_info = merge_result.account_info
        /\ merge_result'.before = accounts_file)
       => /\ merge_result'.outcome = "ok"
          /\ accounts_file' = accounts_file]_vars

\* the second of two equal forced merges, the first of which appended
C7_Witness ==
    /\ IsUpdate(merge_result)
    /\ merge_result.force_update
    /\ merge_result.outcome = "ok"
    /\ merge_result.before = accounts_file
    /\ accounts_file.layout = "dumped"
    /\ Len(accounts_file.workloadAccounts) >= 2
    /\ accounts_file.workloadAccounts[Len(accounts_file.workloadAccounts)]
          = config_info(merge_result.account_info)

(***************************************************************************)
(* C8: a successful merge appends the new entry at the end when no entry   *)
(* has its name, and overwrites the entry of that name in place when       *)
(* force_update is set; every other entry keeps its value and position,    *)
(* and exactly one entry carries the new name afterwards.                  *)
(***************************************************************************)
C8_AppendOrOverwriteInPlace ==
    (IsUpdate(merge_result) /\ merge_result.outcome = "ok") =>
        LET old == merge_result.before.workloadAccounts
            new == accounts_file.workloadAccounts
            n   == merge_result.account_info.AccountName
            e   == [name               |-> n,
                    description        |-> n,
                    email              |-> merge_result.account_info.AccountEmail,
                    organizationalUnit |-> merge_result.account_info.ManagedOrganizationalUnit]
            at  == {i \in 1..Len(old) : old[i].name = n}
        IN  /\ at = {} =>
                  /\ Len(new) = Len(old) + 1
                  /\ new[Len(new)] = e
                  /\ \A i \in 1..Len(old) : new[i] = old[i]
            /\ at # {} =>
                  /\ merge_result.force_update
                  /\ Len(new) = Len(old)
                  /\ \A i \in 1..Len(old) : new[i] = (IF i \in at THEN e ELSE old[i])
            /\ Cardinality({i \in 1..Len(new) : new[i].name = n}) = 1

\* an entry between two others was overwritten in place
C8_Witness ==
    /\ IsUpdate(merge_result)
    /\ merge_result.outcome = "ok"
    /\ merge_result.force_update
    /\ Len(merge_result.before.workloadAccounts) = 3
    /\ merge_result.before.workloadAccounts[2].name = merge_result.account_info.AccountName
    /\ merge_result.before.workloadAccounts[2] # accounts_file.workloadAccounts[2]
    /\ accounts_file.workloadAccounts[2].organizationalUnit = "NewOU"

(***************************************************************************)
(* C9: a merge keeps the entry names of the document pairwise distinct,    *)
(* whatever the name and the force_update flag.                            *)
(***************************************************************************)
Distinct(workloadAccounts) ==
    \A i, j \in 1..Len(workloadAccounts) :
        i # j => workloadAccounts[i].name # workloadAccounts[j].name

C9_NamesStayUnique ==
    [][Distinct(accounts_file.workloadAccounts)
          => Distinct(accounts_file'.workloadAccounts)]_vars

\* a forced merge of a name the document already had
C9_Witness ==
    /\ IsUpdate(merge_result)
    /\ merge_result.force_update
    /\ merge_result.outcome = "ok"
    /\ merge_result.account_info.AccountName \in Names(merge_result.before.workloadAccounts)
    /\ "Fin" \in Names(accounts_file.workloadAccounts)
    /\ "Finance" \in Names(accounts_file.workloadAccounts)
    /\ Distinct(accounts_file.workloadAccounts)

(***************************************************************************)
(* C10: validate_ou_in_config raises                                       *)
(* MissingOrganizationalUnitConfigException exactly for the names that no  *)
(* organizational unit of the organization config carries, and returns     *)
(* normally for the others.                                                *)
(***************************************************************************)
C10_OuCheck ==
    merge_result.op = "validate_ou_in_config" =>
        LET present == \E i \in DOMAIN org_file.organizationalUnits :
                          org_file.organizationalUnits[i].name = merge_result.target_ou_name
        IN  /\ ~present => merge_result.outcome = "MissingOrganizationalUnitConfigException"
            /\ present => merge_result.outcome = "ok"

C10_Witness ==
    /\ merge_result.op = "validate_ou_in_config"
    /\ merge_result.target_ou_name = "Sandbox"
    /\ merge_result.outcome = "MissingOrganizationalUnitConfigException"
    /\ Len(org_file.organizationalUnits) = 2

(***************************************************************************)
(* Workflow runs.  Every run passes the gate (CheckForRunningProcesses)    *)
(* and then the CreateAccount state, which fetches the config, checks the  *)
(* organizational unit, merges the account, writes the config back and     *)
(* starts the deployment pipeline.  The runs share the config store and    *)
(* the pipeline.                                                           *)
(***************************************************************************)
Runs == {"r1", "r2"}

NoPipeline == [CodePipelineExecutionId |-> 0, CodePipelineRunStatus |-> ""]

NoPayload ==
    [CheckForRunningProcesses |-> {},
     CodePipeline             |-> NoPipeline,
     ServiceCatalogRunStatus  |-> "",
     Account                  |-> [py |-> "None"],
     error                    |-> ""]

RunInfos ==
    [AccountName               : {"Finance", "Dev"},
     AccountEmail              : {"new@example.com"},
     ManagedOrganizationalUnit : {"NewOU", "Sandbox"},
     ForceUpdate               : {"false", "true"},
     BypassCreation            : {"false"}]

InitGate ==
    /\ env \in [LZA_PIPELINE_NAME : {"", "AWSAccelerator-Pipeline"},
                 ACCOUNT_DECOMMISSION_PROJECT_NAME : {"", "lzac-account-decommission"}]
    /\ lza_pipeline_source \in {"S3", "CodeCommit"}
    /\ store_rev = 0
    /\ decommission_pages \in {<<>>, << <<"SUCCEEDED">> >>, << <<"IN_PROGRESS", "SUCCEEDED">> >>}
    /\ pipeline_execs \in {<<>>, <<"InProgress">>}
    /\ accounts_file \in {[layout |-> "authored", workloadAccounts |-> d] :
                              d \in {<<>>, <<Authored("Finance")>>}}
    /\ org_file = [organizationalUnits |-> <<[name |-> "OldOU"], [name |-> "NewOU"]>>]
    /\ merge_result = NoMerge
    /\ run_pc = [r \in Runs |-> "CheckForRunningProcesses"]
    /\ run_info \in [Runs -> RunInfos]
    /\ run_local = [r \in Runs |-> [rev |-> 0, accounts |-> accounts_file, org |-> org_file]]
    /\ payload = [r \in Runs |-> NoPayload]
    /\ NamerIdle
    /\ StartIdle
    /\ StepIdle
    /\ CallIdle

\* helper.decommission_process_running: the IN_PROGRESS builds of the first
\* page (the loop returns inside its first iteration); None, here the empty
\* set, when there is no page or the query raised (the error is only logged)
decommission_process_running(pages, query_ok) ==
    IF ~query_ok \/ Len(pages) = 0 THEN {}
    ELSE {i \in 1..Len(pages[1]) : pages[1][i] = "IN_PROGRESS"}

\* helper.pipeline_running: the executions whose status is InProgress; None,
\* here the empty set, when the query raised (the error is only logged)
pipeline_running(execs, query_ok) ==
    IF ~query_ok THEN {}
    ELSE {i \in 1..Len(execs) : execs[i] = "InProgress"}

\* payload['CheckForRunningProcesses'] as the set of its (kind, name) items
GateResult(environment, pages, execs, cb_ok, cp_ok) ==
    LET project_name  == environment.ACCOUNT_DECOMMISSION_PROJECT_NAME
        pipeline_name == environment.LZA_PIPELINE_NAME
    IN  (IF project_name # "" /\ decommission_process_running(pages, cb_ok) # {}
         THEN {<<"CodeBuild", project_name>>} ELSE {})
        \cup
        (IF pipeline_name # "" /\ pipeline_running(execs, cp_ok) # {}
         THEN {<<"CodePipeline", pipeline_name>>} ELSE {})

\* the state machine's choice after the gate: wait and check again while
\* something is reported running, else go on to CreateAccount
AfterGateCheck(result) ==
    IF result # {} THEN "CheckForRunningProcesses" ELSE "CreateAccount"

CheckForRunningProcesses(r) ==
    /\ run_pc[r] = "CheckForRunningProcesses"
    /\ \E cb_ok, cp_ok \in BOOLEAN :
          LET result == GateResult(env, decommission_pages, pipeline_execs, cb_ok, cp_ok)
          IN  /\ payload' = [payload EXCEPT ![r].CheckForRunningProcesses = result]
              /\ run_pc' = [run_pc EXCEPT ![r] = AfterGateCheck(result)]
    /\ UNCHANGED <<env, lza_pipeline_source, store_rev, decommission_pages, pipeline_execs,
                   run_info, run_local, mergeVars, namerVars, startVars, stepVars, callVars, lateVars>>

\* CreateAccount, first part: clone the repository / download the archive
CreateAccountClone(r) ==
    /\ run_pc[r] = "CreateAccount"
    /\ run_info[r].BypassCreation = "false"
    /\ run_local' = [run_local EXCEPT ![r] =
                         [rev |-> store_rev, accounts |-> accounts_file, org |-> org_file]]
    /\ run_pc' = [run_pc EXCEPT ![r] = "CreateAccountPush"]
    /\ UNCHANGED <<env, lza_pipeline_source, store_rev, decommission_pages, pipeline_execs,
                   run_info, payload, mergeVars, namerVars, startVars, stepVars, callVars, lateVars>>

\* a handler's `except Exception as e: raise TypeError(str(e))`
RunFails(r, message) ==
    /\ run_pc' = [run_pc EXCEPT ![r] = "Failed"]
    /\ payload' = [payload EXCEPT ![r].error = message]

\* the two helper calls in the other order: merge and write, then check the OU
CreateAccountPushMergesFirst(r) ==
    /\ run_pc[r] = "CreateAccountPush"
    /\ LET info      == run_info[r]
           validated == validate_ou_in_config(run_local[r].org, info.ManagedOrganizationalUnit)
           updated   == update_account_config_file(run_local[r].accounts, info,
                                                   info.ForceUpdate = "true")
       IN  /\ updated.outcome = "ok"
           /\ accounts_file' = updated.file
           /\ store_rev' = store_rev + 1
           /\ IF validated # "ok"
              THEN RunFails(r, validated)
              ELSE /\ run_pc' = [run_pc EXCEPT ![r] = "CreateAccountStartExecution"]
                   /\ UNCHANGED payload
    /\ UNCHANGED <<env, lza_pipeline_source, decommission_pages, pipeline_execs,
                   run_info, run_local, org_file, merge_result, namerVars, startVars, stepVars, callVars, lateVars>>

\* CreateAccount, second part: validate_ou_in_config, update_account_config_file,
\* then commit and push (CodeCommit: a push onto a moved head is rejected and
\* raise_if_error raises) or zip and upload (S3: the object is overwritten)
CreateAccountPush(r) ==
    /\ run_pc[r] = "CreateAccountPush"
    /\ LET info      == run_info[r]
           validated == validate_ou_in_config(run_local[r].org, info.ManagedOrganizationalUnit)
           updated   == update_account_config_file(run_local[r].accounts, info,
                                                   info.ForceUpdate = "true")
       IN  \/ /\ validated # "ok"
              /\ RunFails(r, validated)
              /\ UNCHANGED <<accounts_file, store_rev>>
           \/ /\ validated = "ok"
              /\ updated.outcome # "ok"
              /\ RunFails(r, updated.outcome)
              /\ UNCHANGED <<accounts_file, store_rev>>
           \/ /\ validated = "ok"
              /\ updated.outcome = "ok"
              /\ lza_pipeline_source = "CodeCommit"
              /\ run_local[r].rev # store_rev
              /\ RunFails(r, "GitCommandError")
              /\ UNCHANGED <<accounts_file, store_rev>>
           \/ /\ validated = "ok"
              /\ updated.outcome = "ok"
              /\ lza_pipeline_source = "CodeCommit" => run_local[r].rev = store_rev
              /\ accounts_file' = updated.file
              /\ store_rev' = store_rev + 1
              /\ run_pc' = [run_pc EXCEPT ![r] = "CreateAccountStartExecution"]
              /\ UNCHANGED payload
    /\ UNCHANGED <<env, lza_pipeline_source, decommission_pages, pipeline_execs,
                   run_info, run_local, org_file, merge_result, namerVars, startVars, stepVars, callVars, lateVars>>

\* CreateAccount, last part: start_execution, status, and the payload
CreateAccountStartExecution(r) ==
    /\ run_pc[r] = "CreateAccountStartExecution"
    /\ pipeline_execs' = Append(pipeline_execs, "InProgress")
    /\ payload' = [payload EXCEPT
                      ![r].CodePipeline =
                          [CodePipelineExecutionId |-> Len(pipeline_execs) + 1,
                           CodePipelineRunStatus   |-> "InProgress"],
                      ![r].ServiceCatalogRunStatus =
                          (IF run_info[r].ForceUpdate # "" THEN "Update" ELSE "Create")]
    /\ run_pc' = [run_pc EXCEPT ![r] = "GetAccountStatus"]
    /\ UNCHANGED <<env, lza_pipeline_source, store_rev, decommission_pages,
                   run_info, run_local, mergeVars, namerVars, startVars, stepVars, callVars, lateVars>>

\* environment: a pipeline execution ends
PipelineExecutionEnds ==
    /\ \E i \in 1..Len(pipeline_execs), status \in {"Succeeded", "Failed"} :
          /\ pipeline_execs[i] = "InProgress"
          /\ pipeline_execs' = [pipeline_execs EXCEPT ![i] = status]
    /\ UNCHANGED <<env, lza_pipeline_source, store_rev, decommission_pages,
                   run_pc, run_info, run_local, payload, mergeVars, namerVars, startVars, stepVars, callVars, lateVars>>

\* environment: the running decommission build ends
DecommissionBuildEnds ==
    /\ Len(decommission_pages) > 0
    /\ \E i \in 1..Len(decommission_pages[1]) :
          /\ decommission_pages[1][i] = "IN_PROGRESS"
          /\ decommission_pages' = [decommission_pages EXCEPT ![1][i] = "SUCCEEDED"]
    /\ UNCHANGED <<env, lza_pipeline_source, store_rev, pipeline_execs,
                   run_pc, run_info, run_local, payload, mergeVars, namerVars, startVars, stepVars, callVars, lateVars>>

NextGate ==
    \/ \E r \in Runs :
          \/ CheckForRunningProcesses(r)
          \/ CreateAccountClone(r)
          \/ CreateAccountPush(r)
          \/ CreateAccountStartExecution(r)
    \/ PipelineExecutionEnds
    \/ DecommissionBuildEnds

SpecGate == InitGate /\ [][NextGate]_vars

(***************************************************************************)
(* C1: with the gate configured for the shared pipeline, no run writes the *)
(* accounts config or starts a pipeline execution while another run's      *)
(* pipeline execution is in progress, or while another run has passed its  *)
(* gate check and has not yet started its own execution.                   *)
(***************************************************************************)
Writes(r) ==
    run_pc[r] = "CreateAccountPush" /\ run_pc'[r] = "CreateAccountStartExecution"

Triggers(r) ==
    run_pc[r] = "CreateAccountStartExecution" /\ run_pc'[r] = "GetAccountStatus"

ExecutionInProgress(q) ==
    /\ payload[q].CodePipeline # NoPipeline
    /\ pipeline_execs[payload[q].CodePipeline.CodePipelineExecutionId] = "InProgress"

PassedGateNotTriggered(q) ==
    run_pc[q] \in {"CreateAccount", "CreateAccountPush", "CreateAccountStartExecution"}

C1_GateSerializesRuns ==
    [][\A r, q \in Runs :
          (/\ env.LZA_PIPELINE_NAME # ""
           /\ r # q
           /\ Writes(r) \/ Triggers(r))
          => (~ExecutionInProgress(q) /\ ~PassedGateNotTriggered(q))]_vars

(***************************************************************************)
(* C11: the CreateAccount state checks the organizational unit before it   *)
(* merges: a run whose ManagedOrganizationalUnit is not in the             *)
(* organization config it fetched leaves the state Failed, and that step   *)
(* changes neither the stored accounts config nor its revision, starts no  *)
(* pipeline execution and records none in the run's payload.               *)
(***************************************************************************)
OuInCatalog(r) ==
    \E i \in 1..Len(run_local[r].org.organizationalUnits) :
        run_local[r].org.organizationalUnits[i].name = run_info[r].ManagedOrganizationalUnit

C11_OuCheckedBeforeMerge ==
    [][\A r \in Runs :
          (/\ run_pc[r] = "CreateAccountPush"
           /\ run_pc'[r] # "CreateAccountPush"
           /\ ~OuInCatalog(r))
          => (/\ run_pc'[r] = "Failed"
              /\ payload'[r].error = "MissingOrganizationalUnitConfigException"
              /\ accounts_file' = accounts_file
              /\ store_rev' = store_rev
              /\ pipeline_execs' = pipeline_execs
              /\ payload'[r].CodePipeline = NoPipeline)]_vars

\* a run has failed on the OU check while the other run has written the config
C11_Witness ==
    \E r, q \in Runs :
        /\ run_pc[r] = "Failed"
        /\ ~OuInCatalog(r)
        /\ payload[r].error = "MissingOrganizationalUnitConfigException"
        /\ payload[r].CodePipeline = NoPipeline
        /\ run_pc[q] = "GetAccountStatus"

(***************************************************************************)
(* HelperCodePipeline.status of the CreateAccount helpers, called on its    *)
(* own.  The pipeline answers the first `notfound` lookups of the execution *)
(* with PipelineExecutionNotFoundException and every later one with the     *)
(* status `final`.                                                          *)
(***************************************************************************)
PipelineStatuses ==
    {"Cancelled", "InProgress", "Stopped", "Stopping", "Succeeded", "Superseded", "Failed"}

NotFound == "PipelineExecutionNotFoundException"

StatusVariants == {"CreateAccount", "CreateAccountS3"}

MaxNotFound == 7

MaxAttemptsArg == 2

HardCodedAttempts == 5

DefaultMaxAttempts == 5

\* the max_attempts argument of a call: left out, or given a value
MaxAttemptsArgs ==
    {[given |-> FALSE, value |-> 0]} \cup {[given |-> TRUE, value |-> n] : n \in 0..MaxAttemptsArg}

get_pipeline_execution(notfound, final, lookup) ==
    IF lookup <= notfound THEN NotFound ELSE final

\* the `while True` loop of status; `raised` is what the except branch raises
\* once _attempts has reached the ceiling
RECURSIVE StatusLoop(_, _, _, _, _)
StatusLoop(ceiling, raised, notfound, final, _attempts) ==
    LET answer == get_pipeline_execution(notfound, final, _attempts + 1)
    IN  IF answer # NotFound
        THEN [result |-> answer, lookups |-> _attempts + 1, retries |-> _attempts]
        ELSE IF _attempts >= ceiling
             THEN [result |-> raised, lookups |-> _attempts + 1, retries |-> _attempts]
             ELSE StatusLoop(ceiling, raised, notfound, final, _attempts + 1)

\* CreateAccount/helper.py: status(self, execution_id) takes no max_attempts
\* (a call that passes one is a TypeError before any lookup), the ceiling is
\* the literal 5, and `raise <exception class> from ...` instantiates the
\* botocore ClientError subclass without its two arguments: a TypeError.
\* CreateAccountS3/helper.py: status(self, execution_id, max_attempts=5)
\* re-raises the exception it caught.
status(variant, max_attempts, notfound, final) ==
    IF variant = "CreateAccount"
    THEN IF max_attempts.given
         THEN [result |-> "TypeError", lookups |-> 0, retries |-> 0]
         ELSE StatusLoop(HardCodedAttempts, "TypeError", notfound, final, 0)
    ELSE StatusLoop(IF max_attempts.given THEN max_attempts.value ELSE DefaultMaxAttempts,
                    NotFound, notfound, final, 0)

NoOut == [result |-> "", lookups |-> 0, retries |-> 0]

InitPoller ==
    /\ status_call \in [variant      : StatusVariants,
                         max_attempts : MaxAttemptsArgs,
                         notfound     : 0..MaxNotFound,
                         final        : PipelineStatuses,
                         done         : {FALSE},
                         out          : {NoOut}]
    /\ GasIdle
    /\ AggIdle
    /\ ValIdle
    /\ AdIdle
    /\ NamerIdle
    /\ StartIdle
    /\ MergeIdle
    /\ GateIdle
    /\ CallIdle

CallStatus ==
    /\ status_call # Unused
    /\ ~status_call.done
    /\ status_call' = [status_call EXCEPT
                          !.done = TRUE,
                          !.out  = status(status_call.variant, status_call.max_attempts,
                                          status_call.notfound, status_call.final)]
    /\ UNCHANGED <<gas_call, agg_call, val_call, identity_store, ad_run, notStepVars>>

NextPoller == CallStatus

SpecPoller == InitPoller /\ [][NextPoller]_vars

(***************************************************************************)
(* C12: HelperCodePipeline.status, answered not-found more often than the  *)
(* ceiling (max_attempts, 5 when left out), retries exactly ceiling times  *)
(* and then raises PipelineExecutionNotFoundException; answered Succeeded  *)
(* at once it returns after that one lookup; answered not-found twice and  *)
(* then Succeeded, with ceiling 5, it returns Succeeded after 2 retries.   *)
(***************************************************************************)
Ceiling(call) ==
    IF call.max_attempts.given THEN call.max_attempts.value ELSE 5

C12_StatusRetriesToCeiling ==
    (status_call # Unused /\ status_call.done) =>
        LET call == status_call
            out  == status_call.out
        IN  /\ call.notfound > Ceiling(call) =>
                   (out.result = NotFound /\ out.retries = Ceiling(call))
            /\ (call.notfound = 0 /\ call.final = "Succeeded") =>
                   (out.result = "Succeeded" /\ out.lookups = 1)
            /\ (call.notfound = 2 /\ call.final = "Succeeded" /\ Ceiling(call) = 5) =>
                   (out.result = "Succeeded" /\ out.retries = 2)

(***************************************************************************)
(* The GetAccountStatus Lambda, invoked on its own.  An invocation reads    *)
(* the pipeline execution (answered as for status above), and, as far as    *)
(* the handler asks, the action executions of the pipeline run, the builds  *)
(* batch_get_builds returns for the failed action, and the provisioned      *)
(* products the Service Catalog search returns.                            *)
(***************************************************************************)
None == [py |-> "None"]

EmptyDict == [py |-> "{}"]

Return(value) == [raised |-> FALSE, value |-> value]

Raise(type, args) == [raised |-> TRUE, type |-> type, args |-> args]

\* account_creation_helper.HelperCodePipeline.status: one lookup, no retry
layer_status(notfound, final) ==
    LET answer == get_pipeline_execution(notfound, final, 1)
    IN  IF answer = NotFound THEN Raise(NotFound, "") ELSE Return(answer)

\* the index of the first TRUE in a list of booleans, 0 when there is none:
\* the element next(iter([x for x in list if test(x)]), default) picks
FirstIndex(tests) ==
    IF \E i \in 1..Len(tests) : tests[i]
    THEN CHOOSE i \in 1..Len(tests) : tests[i] /\ \A j \in 1..(i - 1) : ~tests[j]
    ELSE 0

get_failed_action(actionExecutionDetails) ==
    LET i == FirstIndex([k \in 1..Len(actionExecutionDetails) |->
                            actionExecutionDetails[k].status = "Failed"])
    IN  IF i = 0 THEN EmptyDict ELSE actionExecutionDetails[i]

\* HelperCodeBuild(build_id).get_failed_phase_info(); builds is what
\* batch_get_builds(ids=[build_id]) returns
get_failed_phase_info(builds) ==
    LET i == IF Len(builds) > 0
             THEN FirstIndex([k \in 1..Len(builds[1].phases) |->
                                 builds[1].phases[k].phaseStatus = "FAILED"])
             ELSE 0
    IN  IF i # 0
        THEN Return([phaseType   |-> builds[1].phases[i].phaseType,
                     phaseStatus |-> builds[1].phases[i].phaseStatus])
        ELSE Raise("CodeBuildExecutionInfoNotFound", "no failed phase")

\* response['ProvisionedProducts'] of the search by name: the first product,
\* without its CreatedTime, or None
search_provisioned_products(ProvisionedProducts) ==
    IF Len(ProvisionedProducts) > 0
    THEN [Name       |-> ProvisionedProducts[1].Name,
          Id         |-> ProvisionedProducts[1].Id,
          PhysicalId |-> ProvisionedProducts[1].PhysicalId,
          Status     |-> ProvisionedProducts[1].Status]
    ELSE None

ServiceCatalogInfoAnyStatus(ProvisionedProducts) ==
    LET provisioned_product == search_provisioned_products(ProvisionedProducts)
    IN  IF provisioned_product = None
        THEN Raise("ServiceCatalogException", "Unable to find provisioned product")
        ELSE Return([AccountId              |-> provisioned_product.PhysicalId,
                     ProvisionedProductId   |-> provisioned_product.Id,
                     ProvisionedProductName |-> provisioned_product.Name])

get_service_catalog_info(ProvisionedProducts) ==
    LET provisioned_product == search_provisioned_products(ProvisionedProducts)
    IN  IF provisioned_product # None
        THEN IF provisioned_product.Status \in {"TAINTED", "ERROR"}
             THEN Raise("ServiceCatalogException", "There is a problem with the product")
             ELSE IF provisioned_product.Status = "AVAILABLE"
                  THEN Return([AccountId              |-> provisioned_product.PhysicalId,
                               ProvisionedProductId   |-> provisioned_product.Id,
                               ProvisionedProductName |-> provisioned_product.Name])
                  ELSE Return(None)
        ELSE Raise("ServiceCatalogException", "Unable to find provisioned product")

\* lambda_handler, the branch pipeline_status == "Failed" (lines 121-139)
FailedBranch(event) ==
    LET failed_action == get_failed_action(event.actions)
    IN  IF failed_action = EmptyDict
        THEN Raise("KeyError", "actionName")
        ELSE IF failed_action.provider = "CodeBuild"
             THEN LET info == get_failed_phase_info(event.builds)
                  IN  IF info.raised
                      THEN info
                      ELSE Raise("CodePipelineException",
                                 [FailedActionName    |-> failed_action.actionName,
                                  FailedActionStage   |-> failed_action.stageName,
                                  FailedActionOutput  |-> failed_action.output,
                                  FailedCodeBuildInfo |-> info.value])
             ELSE Raise("CodePipelineException",
                        [FailedActionName   |-> failed_action.actionName,
                         FailedActionStage  |-> failed_action.stageName,
                         FailedActionOutput |-> failed_action.output])

\* lambda_handler inside its try block: the payload it returns or the
\* exception that reaches `except Exception`
GetAccountStatusBody(event) ==
    IF event.BypassCreation = "false"
    THEN LET looked == layer_status(event.notfound, event.final)
         IN  IF looked.raised
             THEN looked
             ELSE IF looked.value = "Succeeded"
                  THEN LET info == get_service_catalog_info(event.products)
                       IN  IF info.raised
                           THEN info
                           ELSE Return([Account |-> [Status |-> "SUCCESS", Outputs |-> info.value],
                                        CodePipelineRunStatus |-> looked.value])
                  ELSE IF looked.value = "InProgress"
                       THEN Return([Account |-> [Status |-> "UNDER_CHANGE"],
                                    CodePipelineRunStatus |-> looked.value])
                       ELSE IF looked.value = "Failed"
                            THEN FailedBranch(event)
                            ELSE Raise("CodePipelineException", "stopped with status " \o looked.value)
    ELSE IF event.BypassCreation = "true"
    THEN LET info == get_service_catalog_info(event.products)
         IN  IF info.raised
             THEN info
             ELSE Return([Account |-> [Status |-> "BYPASSED", Outputs |-> info.value],
                          CodePipelineRunStatus |-> ""])
    ELSE Return([CodePipelineRunStatus |-> ""])

GetAccountStatusAlwaysSuccess(event) ==
    Return([Account |-> [Status |-> "SUCCESS", Outputs |-> None],
            CodePipelineRunStatus |-> event.final])

\* lambda_handler: every exception leaves as TypeError(str(e))
GetAccountStatus(event) ==
    LET body == GetAccountStatusBody(event)
    IN  IF body.raised THEN Raise("TypeError", body) ELSE body

ListsUpTo(S, n) == UNION {[1..k -> S] : k \in 0..n}

MaxActions == 2

MaxPhases == 2

MaxProducts == 2

ActionExecutions ==
    {[actionName |-> "Source", stageName |-> "Source", status |-> "Succeeded",
      provider |-> "S3", output |-> [externalExecutionId |-> "source"]],
     [actionName |-> "Accounts", stageName |-> "Accounts", status |-> "Failed",
      provider |-> "CodeBuild", output |-> [externalExecutionId |-> "build-accounts"]],
     [actionName |-> "Operations", stageName |-> "Deploy", status |-> "Failed",
      provider |-> "CodeBuild", output |-> [externalExecutionId |-> "build-operations"]],
     [actionName |-> "Approval", stageName |-> "Review", status |-> "Failed",
      provider |-> "Manual", output |-> [externalExecutionId |-> "rejected"]]}

Phases ==
    {[phaseType |-> t[1], phaseStatus |-> t[2],
      startTime |-> 1, endTime |-> 2, durationInSeconds |-> 1] :
        t \in {<<"INSTALL", "SUCCEEDED">>, <<"BUILD", "FAILED">>,
               <<"POST_BUILD", "FAILED">>, <<"BUILD", "TIMED_OUT">>}}

Builds == {<<>>} \cup {<<[phases |-> ph]>> : ph \in ListsUpTo(Phases, MaxPhases)}

ProvisionedProductStatuses == {"AVAILABLE", "UNDER_CHANGE", "TAINTED", "ERROR"}

ProvisionedProducts ==
    {[Name |-> "Finance", Id |-> t[1], PhysicalId |-> t[2], Status |-> st, CreatedTime |-> 1] :
        t \in {<<"pp-1", "111111111111">>, <<"pp-2", "222222222222">>},
        st \in ProvisionedProductStatuses}

\* the events of an invocation; what the handler does not ask for is left empty
GasEvents ==
    {e \in [BypassCreation : {"false", "true"},
            notfound       : 0..1,
            final          : PipelineStatuses,
            actions        : ListsUpTo(ActionExecutions, MaxActions),
            builds         : Builds,
            products       : ListsUpTo(ProvisionedProducts, MaxProducts)] :
        /\ e.BypassCreation = "true" => (e.notfound = 0 /\ e.final = "Succeeded")
        /\ (e.actions # <<>> \/ e.builds # <<>>) =>
               (e.BypassCreation = "false" /\ e.notfound = 0 /\ e.final = "Failed")
        /\ e.products # <<>> => (e.notfound = 0 /\ e.final = "Succeeded")}

InitStatus ==
    /\ gas_call \in {[event |-> e, done |-> FALSE, out |-> Unused] : e \in GasEvents}
    /\ StatusIdle
    /\ AggIdle
    /\ ValIdle
    /\ AdIdle
    /\ NamerIdle
    /\ StartIdle
    /\ MergeIdle
    /\ GateIdle
    /\ CallIdle

CallGetAccountStatus ==
    /\ gas_call # Unused
    /\ ~gas_call.done
    /\ gas_call' = [gas_call EXCEPT !.done = TRUE, !.out = GetAccountStatus(gas_call.event)]
    /\ UNCHANGED <<status_call, agg_call, val_call, identity_store, ad_run, notStepVars>>

NextStatus == CallGetAccountStatus

SpecStatus == InitStatus /\ [][NextStatus]_vars

GasDone == gas_call # Unused /\ gas_call.done

\* the invocation asked the pipeline and got the status `final` at once
Polled == GasDone /\ gas_call.event.BypassCreation = "false" /\ gas_call.event.notfound = 0

(***************************************************************************)
(* C13: a GetAccountStatus invocation whose lookup of the pipeline         *)
(* execution is answered not-found does not fail on that first answer: the *)
(* handler does not raise the not-found error.                             *)
(***************************************************************************)
C13_NotFoundTolerated ==
    (GasDone /\ gas_call.event.BypassCreation = "false" /\ gas_call.event.notfound = 1) =>
        ~(gas_call.out.raised /\ gas_call.out.args.type = NotFound)

(***************************************************************************)
(* C14: GetAccountStatus returns Account.Status SUCCESS only when the      *)
(* pipeline execution is Succeeded, returns UNDER_CHANGE exactly when it   *)
(* is InProgress, and raises for every other status.                       *)
(***************************************************************************)
C14_AdvancesOnlyOnSucceeded ==
    Polled =>
        LET final == gas_call.event.final
            out   == gas_call.out
        IN  /\ (~out.raised /\ out.value.Account.Status = "SUCCESS") => final = "Succeeded"
            /\ (~out.raised /\ out.value.Account.Status = "UNDER_CHANGE") <=> final = "InProgress"
            /\ final \notin {"Succeeded", "InProgress"} => out.raised

C14_Witness ==
    /\ Polled
    /\ gas_call.event.final = "Succeeded"
    /\ ~gas_call.out.raised
    /\ gas_call.out.value.Account.Status = "SUCCESS"
    /\ gas_call.out.value.CodePipelineRunStatus = "Succeeded"

(***************************************************************************)
(* C15: when the pipeline execution is Failed, GetAccountStatus raises an  *)
(* error that carries the name, stage and output of the first action whose *)
(* status is Failed and, when that action's provider is CodeBuild, the     *)
(* first phase of the build whose phaseStatus is FAILED, without its       *)
(* startTime, endTime and durationInSeconds.                               *)
(***************************************************************************)
FirstFailedAction ==
    LET actions == gas_call.event.actions
    IN  actions[CHOOSE i \in 1..Len(actions) :
                   /\ actions[i].status = "Failed"
                   /\ \A j \in 1..(i - 1) : actions[j].status # "Failed"]

CarriesFailedAction(error) ==
    /\ error.type = "CodePipelineException"
    /\ error.args.FailedActionName = FirstFailedAction.actionName
    /\ error.args.FailedActionStage = FirstFailedAction.stageName
    /\ error.args.FailedActionOutput = FirstFailedAction.output

FirstFailedPhase ==
    LET phases == gas_call.event.builds[1].phases
    IN  phases[CHOOSE i \in 1..Len(phases) :
                  /\ phases[i].phaseStatus = "FAILED"
                  /\ \A j \in 1..(i - 1) : phases[j].phaseStatus # "FAILED"]

HasFailedPhase ==
    /\ gas_call.event.builds # <<>>
    /\ \E i \in 1..Len(gas_call.event.builds[1].phases) :
          gas_call.event.builds[1].phases[i].phaseStatus = "FAILED"

C15_FailedCarriesRootCause ==
    (/\ Polled
     /\ gas_call.event.final = "Failed"
     /\ \E i \in 1..Len(gas_call.event.actions) : gas_call.event.actions[i].status = "Failed") =>
        /\ gas_call.out.raised
        /\ CarriesFailedAction(gas_call.out.args)
        /\ (FirstFailedAction.provider = "CodeBuild" /\ HasFailedPhase) =>
               gas_call.out.args.args.FailedCodeBuildInfo =
                   [phaseType   |-> FirstFailedPhase.phaseType,
                    phaseStatus |-> FirstFailedPhase.phaseStatus]

(***************************************************************************)
(* C16: get_service_catalog_info raises when the first product the search  *)
(* by account name returns is TAINTED or ERROR, returns AccountId (the     *)
(* product's PhysicalId) and ProvisionedProductId (its Id) when it is      *)
(* AVAILABLE, raises when the search returns no product, and returns no    *)
(* identifiers for a product that is not AVAILABLE.                        *)
(***************************************************************************)
Resolved ==
    /\ GasDone
    /\ gas_call.event.notfound = 0
    /\ gas_call.event.final = "Succeeded"

C16_ResolverOnlyAvailable ==
    Resolved =>
        LET products == gas_call.event.products
            out      == gas_call.out
        IN  /\ products = <<>> =>
                   /\ out.raised
                   /\ out.args.type = "ServiceCatalogException"
                   /\ out.args.args = "Unable to find provisioned product"
            /\ (products # <<>> /\ products[1].Status \in {"TAINTED", "ERROR"}) =>
                   /\ out.raised
                   /\ out.args.type = "ServiceCatalogException"
            /\ (products # <<>> /\ products[1].Status = "AVAILABLE") =>
                   /\ ~out.raised
                   /\ out.value.Account.Outputs # None
                   /\ out.value.Account.Outputs.AccountId = products[1].PhysicalId
                   /\ out.value.Account.Outputs.ProvisionedProductId = products[1].Id
            /\ (~out.raised /\ out.value.Account.Outputs # None) =>
                   (products # <<>> /\ products[1].Status = "AVAILABLE")

\* the search returned two products, the first AVAILABLE, and its identifiers came back
C16_Witness ==
    /\ Resolved
    /\ Len(gas_call.event.products) = 2
    /\ gas_call.event.products[1].Status = "AVAILABLE"
    /\ gas_call.event.products[2].Status = "TAINTED"
    /\ ~gas_call.out.raised
    /\ gas_call.out.value.Account.Outputs.AccountId = gas_call.event.products[1].PhysicalId

(***************************************************************************)
(* The ValidateResources Lambda.  First the rule that turns the list of    *)
(* validation results into payload['ValidationStatus'], evaluated on its   *)
(* own; then the checks and the handler.                                   *)
(***************************************************************************)
InProgressStatuses == {"InProgress", "RUNNING", "NOT_STARTED"}

ValidationStatusFailedBlocks(results) ==
    IF \E i \in 1..Len(results) : results[i].Status \in InProgressStatuses \cup {"Failed"}
    THEN "InProgress"
    ELSE "COMPLETED"

\* lambda_handler lines 98-103
ValidationStatus(results) ==
    IF \E i \in 1..Len(results) : results[i].Status \in InProgressStatuses
    THEN "InProgress"
    ELSE "COMPLETED"

MaxResults == 3

ResultStatuses == {"Passed", "Failed"} \cup InProgressStatuses

ValidationResults == [Service : {"Validation"}, Status : ResultStatuses]

InitAggregate ==
    /\ agg_call \in [status : ListsUpTo(ValidationResults, MaxResults),
                      done   : {FALSE},
                      out    : {""}]
    /\ StatusIdle
    /\ GasIdle
    /\ ValIdle
    /\ AdIdle
    /\ NamerIdle
    /\ StartIdle
    /\ MergeIdle
    /\ GateIdle
    /\ CallIdle

CallValidationStatus ==
    /\ agg_call # Unused
    /\ ~agg_call.done
    /\ agg_call' = [agg_call EXCEPT !.done = TRUE, !.out = ValidationStatus(agg_call.status)]
    /\ UNCHANGED <<status_call, gas_call, val_call, identity_store, ad_run, notStepVars>>

NextAggregate == CallValidationStatus

SpecAggregate == InitAggregate /\ [][NextAggregate]_vars

AggDone == agg_call # Unused /\ agg_call.done

Some(statuses) ==
    \E i \in 1..Len(agg_call.status) : agg_call.status[i].Status \in statuses

iam_role_exist(roles, role_name) ==
    [Service |-> "IAMRoleValidation_" \o role_name,
     Status  |-> IF role_name \notin roles THEN "Failed" ELSE "Passed",
     Message |-> IF role_name \notin roles THEN "does NOT exist" ELSE "exists"]

\* ssm_helper.ValidateSsm.ssm_parameter_exist; get_parameter returns the
\* parameter, raises ParameterNotFound, or raises something else, which the
\* except branch lets pass with _parameter never bound
ssm_parameter_exist(parameters, parameter_name) ==
    IF parameters[parameter_name] = "denied"
    THEN Raise("UnboundLocalError", "_parameter")
    ELSE Return([Service |-> "SsmParameterValidation_" \o parameter_name,
                 Status  |-> IF parameters[parameter_name] = "absent" THEN "Failed" ELSE "Passed",
                 Message |-> IF parameters[parameter_name] = "absent"
                             THEN "does NOT exist" ELSE "exists"])

\* s3_helper.ValidateS3.s3_bucket_exist; the two str.replace calls return
\* new strings that are dropped, so bucket_name is looked up as configured
s3_bucket_exist(buckets, bucket_name) ==
    [Service |-> "S3BucketValidation_" \o bucket_name,
     Status  |-> IF bucket_name \notin buckets THEN "Failed" ELSE "Passed",
     Message |-> IF bucket_name \notin buckets THEN "does NOT exist" ELSE "exists"]

\* organizations_helper.is_account_exist_in_ou; get_ou_ids raises when the
\* OU path is not in the organization
is_account_exist_in_ou(ou, account_id) ==
    IF ~ou.found
    THEN Raise("Exception", "Did not find OU Path")
    ELSE Return([Service |-> "OrganizationalUnitValidation",
                 Status  |-> IF account_id \notin ou.children THEN "Failed" ELSE "Passed",
                 Message |-> IF account_id \notin ou.children
                             THEN "does NOT exist" ELSE "exists"])

\* dict.update and dict.get
Update(d, other) ==
    [k \in DOMAIN d \cup DOMAIN other |-> IF k \in DOMAIN other THEN other[k] ELSE d[k]]

Get(d, key, default) == IF key \in DOMAIN d THEN d[key] ELSE default

\* lines 46-50: the entries of validate.yaml whose key is a substring of the OU
RECURSIVE ResourcesFor(_, _, _)
ResourcesFor(validate_ou, manage_ou, validate_resources) ==
    IF validate_ou = <<>>
    THEN validate_resources
    ELSE ResourcesFor(Tail(validate_ou), manage_ou,
                      IF PyIn(Head(validate_ou).key, manage_ou)
                      THEN Update(validate_resources, Head(validate_ou).value)
                      ELSE validate_resources)

\* lambda_handler of ValidateResources
\* lambda_handler inside its try block
ValidateResourcesBody(event) ==
    LET in_ou      == is_account_exist_in_ou(event.ou, event.account_id)
        resources  == ResourcesFor(event.validate_ou, event.manage_ou, <<>>)
        roles      == Get(resources, "iam", [roles |-> <<>>]).roles
        parameters == Get(resources, "ssm", [parameters |-> <<>>]).parameters
        bucket_names == Get(resources, "s3", [buckets |-> <<>>]).buckets
        iam == [i \in 1..Len(roles) |-> iam_role_exist(event.roles, roles[i])]
        ssm == [i \in 1..Len(parameters) |-> ssm_parameter_exist(event.parameters, parameters[i])]
        s3  == [i \in 1..Len(bucket_names) |-> s3_bucket_exist(event.buckets, bucket_names[i])]
    IN  IF in_ou.raised
        THEN in_ou
        ELSE IF \E i \in 1..Len(ssm) : ssm[i].raised
             THEN Raise("UnboundLocalError", "_parameter")
             ELSE LET results == <<in_ou.value>> \o iam
                                 \o [i \in 1..Len(ssm) |-> ssm[i].value] \o s3
                  IN  Return([ValidationStatus      |-> ValidationStatus(results),
                              ValidationInformation |-> results])

\* lambda_handler: `except Exception as e: raise TypeError(str(e)) from e`
ValidateResources(event) ==
    LET body == ValidateResourcesBody(event)
    IN  IF body.raised THEN Raise("TypeError", body) ELSE body

\* validate.yaml, 'validate' -> 'organizationalUnits', as its items in order
ValidateConfigs ==
    {<<>>,
     <<[key |-> "Sandbox",
        value |-> [iam |-> [roles |-> <<"AdminRole">>],
                   ssm |-> [parameters |-> <<"/lza/param">>],
                   s3  |-> [buckets |-> <<"plain-bucket">>]]]>>,
     <<[key |-> "Sand",
        value |-> [iam |-> [roles |-> <<"BaseRole">>],
                   ssm |-> [parameters |-> <<"/lza/param">>]]],
       [key |-> "Sandbox",
        value |-> [iam |-> [roles |-> <<"AdminRole">>],
                   s3  |-> [buckets |-> <<"logs-{{ account }}">>]]]>>}

ValEvents ==
    {e \in [manage_ou   : {"Sandbox", "NewOU"},
            account_id  : {"111111111111"},
            validate_ou : ValidateConfigs,
            ou          : [found : BOOLEAN, children : SUBSET {"111111111111"}],
            roles       : SUBSET {"AdminRole", "BaseRole"},
            parameters  : [{"/lza/param"} -> {"present", "absent", "denied"}],
            buckets     : SUBSET {"plain-bucket", "logs-111111111111"}] :
        ~e.ou.found => e.ou.children = {}}

InitValidate ==
    /\ val_call \in {[event |-> e, done |-> FALSE, out |-> Unused] : e \in ValEvents}
    /\ StatusIdle
    /\ GasIdle
    /\ AggIdle
    /\ AdIdle
    /\ NamerIdle
    /\ StartIdle
    /\ MergeIdle
    /\ GateIdle
    /\ CallIdle

CallValidateResources ==
    /\ val_call # Unused
    /\ ~val_call.done
    /\ val_call' = [val_call EXCEPT !.done = TRUE, !.out = ValidateResources(val_call.event)]
    /\ UNCHANGED <<status_call, gas_call, agg_call, identity_store, ad_run, notStepVars>>

NextValidate == CallValidateResources

SpecValidate == InitValidate /\ [][NextValidate]_vars

(***************************************************************************)
(* C18: in the ValidationInformation a ValidateResources invocation        *)
(* returns, the result of every check whose IAM role, SSM parameter or S3  *)
(* bucket is not found in the account has Status InProgress, and the       *)
(* ValidationStatus is then InProgress.                                    *)
(***************************************************************************)
NotFoundResult(result) ==
    \/ \E r \in {"AdminRole", "BaseRole"} \ val_call.event.roles :
          result.Service = "IAMRoleValidation_" \o r
    \/ \E p \in {"/lza/param"} :
          /\ val_call.event.parameters[p] = "absent"
          /\ result.Service = "SsmParameterValidation_" \o p
    \/ \E b \in {"plain-bucket"} \ val_call.event.buckets :
          result.Service = "S3BucketValidation_" \o b

C18_NotFoundIsInProgress ==
    (val_call # Unused /\ val_call.done /\ ~val_call.out.raised) =>
        LET info == val_call.out.value.ValidationInformation
        IN  \A i \in 1..Len(info) :
                NotFoundResult(info[i]) =>
                    /\ info[i].Status = "InProgress"
                    /\ val_call.out.value.ValidationStatus = "InProgress"

(***************************************************************************)
(* The ValidateAdGroupSyncToSSO Lambda and the loop the state machine runs *)
(* it in: the payload a poll returns is the payload of the next poll.      *)
(* Meanwhile the directory sync makes groups appear in Identity Center.    *)
(***************************************************************************)
WAIT_LIMIT == 15

UpperCase == "ABCDEFGHIJKLMNOPQRSTUVWXYZ"

LowerCase == "abcdefghijklmnopqrstuvwxyz"

LowerChar(c) ==
    IF \E i \in 1..Len(UpperCase) : SubSeq(UpperCase, i, i) = c
    THEN LET i == CHOOSE i \in 1..Len(UpperCase) : SubSeq(UpperCase, i, i) = c
         IN  SubSeq(LowerCase, i, i)
    ELSE c

\* str.lower
RECURSIVE lower(_)
lower(s) ==
    IF Len(s) = 0 THEN "" ELSE LowerChar(SubSeq(s, 1, 1)) \o lower(SubSeq(s, 2, Len(s)))

\* the groups in the order the two nested loops over the pages visit them
RECURSIVE GroupsOf(_)
GroupsOf(pages) ==
    IF pages = <<>> THEN <<>> ELSE Head(pages) \o GroupsOf(Tail(pages))

LookupCaseSensitive(group_name, store) ==
    LET groups == GroupsOf(store.pages)
        i == FirstIndex([k \in 1..Len(groups) |-> groups[k].DisplayName = group_name])
    IN  IF i = 0
        THEN Raise("ObjectNotFoundInIdentityCenter", group_name)
        ELSE Return(groups[i].GroupId)

\* identity_center_helper.lookup_group_guid_from_sso
lookup_group_guid_from_sso(group_name, store) ==
    LET groups == GroupsOf(store.pages)
        i == FirstIndex([k \in 1..Len(groups) |->
                            lower(groups[k].DisplayName) = lower(group_name)])
    IN  IF i = 0
        THEN Raise("ObjectNotFoundInIdentityCenter", group_name)
        ELSE Return(groups[i].GroupId)

\* identity_center_helper.get_sso_instance_id_and_arn
get_sso_instance_id_and_arn(store) ==
    IF Len(store.Instances) = 0
    THEN Raise("ObjectNotFoundInIdentityCenter", "No AWS SSO instance found")
    ELSE Return(store.Instances[1].IdentityStoreId)

\* lambda_handler of ValidateAdGroupSyncToSSO, with WAIT_LIMIT as read from
\* the environment
AdGroupSyncWithLimit(wait_limit, in_payload, store) ==
    LET ad == in_payload.AccountInfo.ADIntegration
        group_names == [i \in 1..Len(ad) |-> ad[i].ActiveDirectoryGroupName]
        instance == get_sso_instance_id_and_arn(store)
        azure == IF in_payload.AzureAD = None THEN [WaitCount |-> 0] ELSE in_payload.AzureAD
        missing == FirstIndex([k \in 1..Len(group_names) |->
                                  lookup_group_guid_from_sso(group_names[k], store).raised])
    IN  IF instance.raised
        THEN Raise("TypeError", instance)
        ELSE IF missing = 0
             THEN Return([in_payload EXCEPT !.AzureAD =
                             IF group_names = <<>>
                             THEN azure
                             ELSE [WaitCount |-> azure.WaitCount, WaitForAdSync |-> FALSE]])
             ELSE IF azure.WaitCount + 1 > wait_limit
                  THEN Raise("TypeError", Raise("ExceededWaitTimeLimit", wait_limit))
                  ELSE Return([in_payload EXCEPT !.AzureAD =
                                  [WaitCount |-> azure.WaitCount + 1, WaitForAdSync |-> TRUE]])

AdGroupSyncRaisesAtLimit(in_payload, store) ==
    AdGroupSyncWithLimit(WAIT_LIMIT - 1, in_payload, store)

ValidateAdGroupSyncToSSO(in_payload, store) ==
    AdGroupSyncWithLimit(WAIT_LIMIT, in_payload, store)

\* the state machine's choice after the poll: poll again while the payload
\* says to wait, else go on
AfterAdSyncCheck(in_payload) ==
    IF in_payload.AzureAD.WaitForAdSync THEN "ValidateAdGroupSyncToSSO" ELSE "AttachPermissionSet"

MaxMappings == 2

StoreGroups ==
    {[DisplayName |-> "admins", GroupId |-> "g-1"],
     [DisplayName |-> "ADMINS", GroupId |-> "g-2"],
     [DisplayName |-> "Devs", GroupId |-> "g-3"]}

ADIntegrations ==
    ListsUpTo({[PermissionSetName |-> "Admin", ActiveDirectoryGroupName |-> "Admins"],
               [PermissionSetName |-> "ReadOnly", ActiveDirectoryGroupName |-> "devs"]},
              MaxMappings) \ {<<>>}

InitAdSync ==
    /\ identity_store \in [Instances : {<<>>, <<[IdentityStoreId |-> "d-1"]>>},
                            pages     : {<<p>> : p \in ListsUpTo(StoreGroups, 1)}]
    /\ ad_run \in [pc      : {"ValidateAdGroupSyncToSSO"},
                    payload : [AccountInfo : [ADIntegration : ADIntegrations],
                               AzureAD     : {None}],
                    error   : {None}]
    /\ StatusIdle
    /\ GasIdle
    /\ AggIdle
    /\ ValIdle
    /\ NamerIdle
    /\ StartIdle
    /\ MergeIdle
    /\ GateIdle
    /\ CallIdle

\* one poll
PollAdGroupSync ==
    /\ ad_run # Unused
    /\ ad_run.pc = "ValidateAdGroupSyncToSSO"
    /\ LET result == ValidateAdGroupSyncToSSO(ad_run.payload, identity_store)
       IN  ad_run' = IF result.raised
                     THEN [ad_run EXCEPT !.pc = "Failed", !.error = result]
                     ELSE [ad_run EXCEPT !.pc = AfterAdSyncCheck(result.value),
                                         !.payload = result.value]
    /\ UNCHANGED <<identity_store, status_call, gas_call, agg_call, val_call, notStepVars>>

\* environment: the directory sync brings a group into Identity Center, on
\* the last page of the listing or on a new one
GroupSynced ==
    /\ identity_store # Unused
    /\ \E group \in StoreGroups, new_page \in BOOLEAN :
          LET pages == identity_store.pages
              groups == GroupsOf(pages)
          IN  /\ \A i \in 1..Len(groups) : groups[i] # group
              /\ identity_store' =
                     [identity_store EXCEPT !.pages =
                         IF new_page
                         THEN Append(pages, <<group>>)
                         ELSE [pages EXCEPT ![Len(pages)] = Append(@, group)]]
    /\ UNCHANGED <<ad_run, status_call, gas_call, agg_call, val_call, notStepVars>>

NextAdSync == PollAdGroupSync \/ GroupSynced

SpecAdSync == InitAdSync /\ [][NextAdSync]_vars

\* a poll is taken in this step, with Identity Center there to be asked
AdPolls ==
    /\ ad_run.pc = "ValidateAdGroupSyncToSSO"
    /\ ad_run' # ad_run
    /\ identity_store.Instances # <<>>

\* the requested group names, and whether Identity Center shows a group of
\* that name, upper and lower case taken as equal
Requested ==
    {ad_run.payload.AccountInfo.ADIntegration[i].ActiveDirectoryGroupName :
        i \in 1..Len(ad_run.payload.AccountInfo.ADIntegration)}

Visible(group_name) ==
    \E p \in 1..Len(identity_store.pages) : \E i \in 1..Len(identity_store.pages[p]) :
        lower(identity_store.pages[p][i].DisplayName) = lower(group_name)

WaitCountOf(run) ==
    IF run.payload.AzureAD = None THEN 0 ELSE run.payload.AzureAD.WaitCount

(***************************************************************************)
(* C19: a poll that finds some requested group not visible raises the wait *)
(* count carried in the payload by exactly one; while the new count is at  *)
(* most 15 the poll returns WaitForAdSync true and the run polls again,    *)
(* and the poll that would take the count to 16 raises                     *)
(* ExceededWaitTimeLimit and ends the run: at most 16 such polls.          *)
(***************************************************************************)
C19_WaitCountUpToLimit ==
    [][(AdPolls /\ \E g \in Requested : ~Visible(g)) =>
          IF WaitCountOf(ad_run) + 1 <= 15
          THEN /\ ad_run'.pc = "ValidateAdGroupSyncToSSO"
               /\ ad_run'.payload.AzureAD.WaitForAdSync = TRUE
               /\ ad_run'.payload.AzureAD.WaitCount = WaitCountOf(ad_run) + 1
          ELSE /\ ad_run'.pc = "Failed"
               /\ ad_run'.error.args.type = "ExceededWaitTimeLimit"]_vars

\* fifteen polls have returned to wait and the sixteenth has raised
C19_Witness ==
    /\ ad_run # Unused
    /\ ad_run.pc = "Failed"
    /\ ad_run.error.args.type = "ExceededWaitTimeLimit"
    /\ WaitCountOf(ad_run) = 15
    /\ ad_run.payload.AzureAD.WaitForAdSync = TRUE

(***************************************************************************)
(* C20: a poll returns WaitForAdSync false if and only if every requested  *)
(* group is visible in Identity Center (display names compared ignoring    *)
(* case); when one is not, it returns WaitForAdSync true or raises         *)
(* ExceededWaitTimeLimit.  The lookup of a name returns the GroupId of the *)
(* first group listed with that name and raises                            *)
(* ObjectNotFoundInIdentityCenter when there is none.                      *)
(***************************************************************************)
FirstNamed(group_name) ==
    LET groups == GroupsOf(identity_store.pages)
    IN  groups[CHOOSE i \in 1..Len(groups) :
                  /\ lower(groups[i].DisplayName) = lower(group_name)
                  /\ \A j \in 1..(i - 1) : lower(groups[j].DisplayName) # lower(group_name)]

C20_SyncedIffAllVisible ==
    [][AdPolls =>
          /\ (ad_run'.pc # "Failed" /\ ~ad_run'.payload.AzureAD.WaitForAdSync)
                 <=> (\A g \in Requested : Visible(g))
          /\ (\E g \in Requested : ~Visible(g)) =>
                 \/ ad_run'.pc # "Failed" /\ ad_run'.payload.AzureAD.WaitForAdSync
                 \/ ad_run'.pc = "Failed" /\ ad_run'.error.args.type = "ExceededWaitTimeLimit"
          /\ \A g \in Requested :
                 LET found == lookup_group_guid_from_sso(g, identity_store)
                 IN  IF Visible(g)
                     THEN ~found.raised /\ found.value = FirstNamed(g).GroupId
                     ELSE found.raised /\ found.type = "ObjectNotFoundInIdentityCenter"]_vars

\* after some waiting both requested groups are visible, under names that
\* differ in case from the request, and the poll has returned not to wait
C20_Witness ==
    /\ ad_run # Unused
    /\ ad_run.pc = "AttachPermissionSet"
    /\ Requested = {"Admins", "devs"}
    /\ \A g \in Requested : Visible(g)
    /\ ad_run.payload.AzureAD.WaitForAdSync = FALSE
    /\ ad_run.payload.AzureAD.WaitCount > 0

(***************************************************************************)
(* Specification of one invocation of the CheckForRunningProcesses Lambda  *)
(* as a function of its event, its environment and what CodeBuild and      *)
(* CodePipeline answer.                                                    *)
(***************************************************************************)
GateAccountInfos ==
    {[AccountName |-> "Finance"], [AccountName |-> "Finance", ForceUpdate |-> "true"]}

\* the event of a first attempt, of a repeated attempt (under 'Payload'),
\* and one that carries no AccountInfo at all
GateEvents ==
    {[AccountInfo |-> info] : info \in GateAccountInfos}
    \cup {[Payload |-> [AccountInfo |-> info]] : info \in GateAccountInfos}
    \cup {[Other |-> "x"]}

HasKey(d, key) == key \in DOMAIN d

\* lambda_handler of CheckForRunningProcesses
CheckForRunningProcessesHandler(event, environment, pages, execs, cb_ok, cp_ok) ==
    IF ~HasKey(event, "Payload") /\ ~HasKey(event, "AccountInfo")
    THEN Raise("TypeError", Raise("KeyError", "AccountInfo"))
    ELSE LET account_info == IF HasKey(event, "Payload")
                             THEN event.Payload.AccountInfo ELSE event.AccountInfo
         IN  Return([CheckForRunningProcesses |->
                         GateResult(environment, pages, execs, cb_ok, cp_ok),
                     AccountInfo |-> account_info,
                     ForceUpdate |-> Get(account_info, "ForceUpdate", "false")])

GateEnvs ==
    [LZA_PIPELINE_NAME : {"", "AWSAccelerator-Pipeline"},
     ACCOUNT_DECOMMISSION_PROJECT_NAME : {"", "lzac-account-decommission"}]

\* what list_builds_for_project / batch_get_builds page through
GatePages ==
    {<< <<"SUCCEEDED">> >>,
     << <<"IN_PROGRESS", "SUCCEEDED">> >>,
     << <<"SUCCEEDED", "FAILED">>, <<"SUCCEEDED">> >>,
     << <<"SUCCEEDED", "SUCCEEDED">>, <<"IN_PROGRESS">> >>}

\* what list_pipeline_executions lists
GateExecs ==
    {<<>>, <<"Succeeded">>, <<"InProgress">>, <<"Failed", "InProgress">>}

InitGateCheck ==
    /\ gate_call \in [event : GateEvents, environment : GateEnvs,
                       pages : GatePages, execs : GateExecs,
                       cb_ok : BOOLEAN, cp_ok : BOOLEAN,
                       done : {FALSE}, out : {None}]
    /\ CreateCallIdle
    /\ RespondCallIdle
    /\ WfIdle
    /\ StepIdle
    /\ NamerIdle
    /\ StartIdle
    /\ MergeIdle
    /\ GateIdle
    /\ FrameIdle
    /\ ApiIdle

CallCheckForRunningProcesses ==
    /\ ~gate_call.done
    /\ gate_call' = [gate_call EXCEPT
                        !.done = TRUE,
                        !.out = CheckForRunningProcessesHandler(
                                    gate_call.event, gate_call.environment,
                                    gate_call.pages, gate_call.execs,
                                    gate_call.cb_ok, gate_call.cp_ok)]
    /\ UNCHANGED <<create_call, respond_call, wf_run, notCallVars>>

NextGateCheck == CallCheckForRunningProcesses

SpecGateCheck == InitGateCheck /\ [][NextGateCheck]_vars

GateDone == gate_call # Unused /\ gate_call.done

\* the resources that are active at the time of the invocation
SomeBuildInProgress(pages) ==
    \E p \in 1..Len(pages) : \E i \in 1..Len(pages[p]) : pages[p][i] = "IN_PROGRESS"

SomeExecutionInProgress(execs) ==
    \E i \in 1..Len(execs) : execs[i] = "InProgress"

ActiveResources(call) ==
    (IF call.environment.ACCOUNT_DECOMMISSION_PROJECT_NAME # ""
        /\ SomeBuildInProgress(call.pages)
     THEN {<<"CodeBuild", call.environment.ACCOUNT_DECOMMISSION_PROJECT_NAME>>} ELSE {})
    \cup
    (IF call.environment.LZA_PIPELINE_NAME # "" /\ SomeExecutionInProgress(call.execs)
     THEN {<<"CodePipeline", call.environment.LZA_PIPELINE_NAME>>} ELSE {})

(***************************************************************************)
(* C21: an invocation of the gate check that is given an AccountInfo, and   *)
(* whose queries are answered, returns, and what it returns as running is  *)
(* exactly the set of the configured resources that are active: the        *)
(* decommission project iff it                                             *)
(* is configured and one of its builds is IN_PROGRESS, the pipeline iff it *)
(* is configured and one of its executions is InProgress.                  *)
(***************************************************************************)
C21_GateReturnsActiveSubset ==
    (GateDone /\ gate_call.event # [Other |-> "x"] /\ gate_call.cb_ok /\ gate_call.cp_ok)
        => /\ ~gate_call.out.raised
           /\ gate_call.out.value.CheckForRunningProcesses = ActiveResources(gate_call)

(***************************************************************************)
(* C30: when the busy-state query of a configured resource fails, the      *)
(* invocation raises the wrapped error; it does not return.                *)
(***************************************************************************)
QueryFailed(call) ==
    \/ call.environment.ACCOUNT_DECOMMISSION_PROJECT_NAME # "" /\ ~call.cb_ok
    \/ call.environment.LZA_PIPELINE_NAME # "" /\ ~call.cp_ok

C30_FailedQueryFailsTheState ==
    (GateDone /\ QueryFailed(gate_call))
        => (gate_call.out.raised /\ gate_call.out.type = "TypeError")

(***************************************************************************)
(* Specification of runs that bypass the creation next to runs that do     *)
(* not: the gate, CreateAccount and GetAccountStatus states of each run.   *)
(***************************************************************************)
BypassRunInfos ==
    {[AccountName |-> "Finance", AccountEmail |-> "new@example.com",
      ManagedOrganizationalUnit |-> "NewOU", ForceUpdate |-> "false",
      BypassCreation |-> "false"],
     [AccountName |-> "Finance", AccountEmail |-> "new@example.com",
      ManagedOrganizationalUnit |-> "Sandbox", ForceUpdate |-> "false",
      BypassCreation |-> "false"],
     [AccountName |-> "Dev", AccountEmail |-> "new@example.com",
      ManagedOrganizationalUnit |-> "NewOU", ForceUpdate |-> "false",
      BypassCreation |-> "true"],
     [AccountName |-> "Dev", AccountEmail |-> "new@example.com",
      ManagedOrganizationalUnit |-> "Sandbox", ForceUpdate |-> "true",
      BypassCreation |-> "true"]}

InitBypass ==
    /\ env \in [LZA_PIPELINE_NAME : {"", "AWSAccelerator-Pipeline"},
                 ACCOUNT_DECOMMISSION_PROJECT_NAME : {"lzac-account-decommission"}]
    /\ lza_pipeline_source \in {"S3", "CodeCommit"}
    /\ store_rev = 0
    /\ decommission_pages \in {<<>>, << <<"IN_PROGRESS", "SUCCEEDED">> >>}
    /\ pipeline_execs \in {<<>>, <<"InProgress">>}
    /\ accounts_file \in {[layout |-> "authored", workloadAccounts |-> d] :
                              d \in {<<>>, <<Authored("Finance")>>}}
    /\ org_file = [organizationalUnits |-> <<[name |-> "OldOU"], [name |-> "NewOU"]>>]
    /\ merge_result = NoMerge
    /\ run_pc = [r \in Runs |-> "CheckForRunningProcesses"]
    /\ run_info \in [Runs -> BypassRunInfos]
    /\ run_local = [r \in Runs |-> [rev |-> 0, accounts |-> accounts_file, org |-> org_file]]
    /\ payload = [r \in Runs |-> NoPayload]
    /\ NamerIdle
    /\ StartIdle
    /\ StepIdle
    /\ CallIdle

\* CreateAccount acting on every request as if BypassCreation were 'false'
CreateAccountIgnoresBypass(r) ==
    /\ run_pc[r] = "CreateAccount"
    /\ run_info[r].BypassCreation = "true"
    /\ run_local' = [run_local EXCEPT ![r] =
                         [rev |-> store_rev, accounts |-> accounts_file, org |-> org_file]]
    /\ run_pc' = [run_pc EXCEPT ![r] = "CreateAccountPush"]
    /\ UNCHANGED <<env, lza_pipeline_source, store_rev, decommission_pages, pipeline_execs,
                   run_info, payload, mergeVars, namerVars, startVars, stepVars, callVars, lateVars>>

\* CreateAccount with BypassCreation 'true': nothing but the AccountInfo is
\* put into the payload
CreateAccountBypass(r) ==
    /\ run_pc[r] = "CreateAccount"
    /\ run_info[r].BypassCreation = "true"
    /\ run_pc' = [run_pc EXCEPT ![r] = "GetAccountStatus"]
    /\ UNCHANGED <<env, lza_pipeline_source, store_rev, decommission_pages, pipeline_execs,
                   run_info, run_local, payload, mergeVars, namerVars, startVars,
                   stepVars, callVars, lateVars>>

\* the state machine's choice after GetAccountStatus: wait and ask again
\* while the account is UNDER_CHANGE, else go on
AfterGetAccountStatus(account) ==
    IF account.Status = "UNDER_CHANGE" THEN "GetAccountStatus"
    ELSE "CreateAdditionalResources"

\* what the services can answer to the GetAccountStatus of run r: the
\* status of the run's pipeline execution (not found when the payload names
\* none), the action and build details of a failed execution, the products
GasEventsOf(r) ==
    LET triggered == payload[r].CodePipeline # NoPipeline
        final     == IF triggered
                     THEN pipeline_execs[payload[r].CodePipeline.CodePipelineExecutionId]
                     ELSE "Succeeded"
    IN  [BypassCreation : {run_info[r].BypassCreation},
         notfound       : {IF triggered THEN 0 ELSE 1},
         final          : {final},
         actions        : IF triggered /\ final = "Failed"
                          THEN ListsUpTo(ActionExecutions, 1) ELSE {<<>>},
         builds         : IF triggered /\ final = "Failed"
                          THEN {<<>>} \cup {<<[phases |-> <<ph>>]>> : ph \in Phases}
                          ELSE {<<>>},
         products       : ListsUpTo(ProvisionedProducts, 1)]

\* GetAccountStatus of a run
GetAccountStatusOfRun(r) ==
    /\ run_pc[r] = "GetAccountStatus"
    /\ \E event \in GasEventsOf(r) :
          LET out == GetAccountStatus(event)
          IN  IF out.raised
              THEN RunFails(r, out.args.type)
              ELSE /\ payload' = [payload EXCEPT
                                     ![r].Account = out.value.Account,
                                     ![r].CodePipeline.CodePipelineRunStatus =
                                         out.value.CodePipelineRunStatus]
                   /\ run_pc' = [run_pc EXCEPT ![r] = AfterGetAccountStatus(out.value.Account)]
    /\ UNCHANGED <<env, lza_pipeline_source, store_rev, decommission_pages, pipeline_execs,
                   run_info, run_local, mergeVars, namerVars, startVars, stepVars, callVars, lateVars>>

NextBypass ==
    \/ \E r \in Runs :
          \/ CheckForRunningProcesses(r)
          \/ CreateAccountClone(r)
          \/ CreateAccountBypass(r)
          \/ CreateAccountPush(r)
          \/ CreateAccountStartExecution(r)
          \/ GetAccountStatusOfRun(r)
    \/ PipelineExecutionEnds
    \/ DecommissionBuildEnds

SpecBypass == InitBypass /\ [][NextBypass]_vars

Bypassing(r) == run_info[r].BypassCreation = "true"

(***************************************************************************)
(* C22: a run whose BypassCreation is 'true' never changes the stored      *)
(* accounts document and never starts a pipeline execution; its            *)
(* CreateAccount state leads straight to GetAccountStatus, and its         *)
(* GetAccountStatus state either returns the status BYPASSED, with the     *)
(* payload still naming no pipeline execution and no pipeline status, or   *)
(* fails on the existing-resource lookup (never on a pipeline lookup).     *)
(***************************************************************************)
C22_BypassWritesAndTriggersNothing ==
    [][\A r \in Runs :
          (Bypassing(r) /\ run_pc'[r] # run_pc[r]) =>
              /\ accounts_file' = accounts_file
              /\ store_rev' = store_rev
              /\ pipeline_execs' = pipeline_execs
              /\ run_pc[r] = "CreateAccount" => run_pc'[r] = "GetAccountStatus"
              /\ run_pc[r] = "GetAccountStatus" =>
                    \/ /\ run_pc'[r] = "CreateAdditionalResources"
                       /\ payload'[r].Account.Status = "BYPASSED"
                       /\ payload'[r].CodePipeline = NoPipeline
                    \/ /\ run_pc'[r] = "Failed"
                       /\ payload'[r].error = "ServiceCatalogException"]_vars

\* a bypassing run has resolved its account while the other run has written
\* the accounts document and started the pipeline
C22_Witness ==
    \E r, q \in Runs :
        /\ Bypassing(r)
        /\ run_pc[r] = "CreateAdditionalResources"
        /\ payload[r].Account.Status = "BYPASSED"
        /\ ~Bypassing(q)
        /\ payload[q].CodePipeline # NoPipeline
        /\ store_rev = 1

(***************************************************************************)
(* Specification of one invocation of the CreateAccount Lambda as a        *)
(* function of its event, its environment, the two configuration files it  *)
(* fetches, and what the push and the pipeline answer.                     *)
(***************************************************************************)
\* str.replace for a one-character `old`
RECURSIVE replace(_, _, _)
replace(s, old, new) ==
    IF Len(s) = 0 THEN ""
    ELSE (IF SubSeq(s, 1, 1) = old THEN new ELSE SubSeq(s, 1, 1))
         \o replace(SubSeq(s, 2, Len(s)), old, new)

\* the account name put into the address as it is
BuildRootEmailKeepsSpaces(account_name, environ) ==
    IF ~HasKey(environ, "ROOT_EMAIL_PREFIX")
    THEN Raise("MissingEnvironmentVariableException", "ROOT_EMAIL_PREFIX")
    ELSE IF ~HasKey(environ, "ROOT_EMAIL_DOMAIN")
    THEN Raise("MissingEnvironmentVariableException", "ROOT_EMAIL_DOMAIN")
    ELSE Return(environ.ROOT_EMAIL_PREFIX \o "+" \o account_name
                \o "@" \o replace(environ.ROOT_EMAIL_DOMAIN, "@", ""))

build_root_email_address(account_name, environ) ==
    IF ~HasKey(environ, "ROOT_EMAIL_PREFIX")
    THEN Raise("MissingEnvironmentVariableException", "ROOT_EMAIL_PREFIX")
    ELSE IF ~HasKey(environ, "ROOT_EMAIL_DOMAIN")
    THEN Raise("MissingEnvironmentVariableException", "ROOT_EMAIL_DOMAIN")
    ELSE Return(environ.ROOT_EMAIL_PREFIX \o "+" \o replace(account_name, " ", "-")
                \o "@" \o replace(environ.ROOT_EMAIL_DOMAIN, "@", ""))

\* the effects of an invocation: what it returns or raises, the accounts
\* file as stored afterwards, whether a pipeline execution was started
Effects(out, file, started) == [out |-> out, file |-> file, started |-> started]

\* lambda_handler inside its try block
CreateAccountBody(event, environ, org, accounts, push_ok, notfound) ==
    IF ~HasKey(event, "Payload") /\ ~HasKey(event, "AccountInfo")
    THEN Effects(Raise("KeyError", "AccountInfo"), accounts, FALSE)
    ELSE
    LET given == IF HasKey(event, "Payload")
                 THEN event.Payload.AccountInfo ELSE event.AccountInfo
        update_needed == Get(given, "ForceUpdate", "false")
        no_email == Get(given, "AccountEmail", "") = ""
        built == build_root_email_address(given.AccountName, environ)
    IN  IF no_email /\ built.raised
        THEN Effects(built, accounts, FALSE)
        ELSE
        LET account_info == IF no_email
                            THEN Update(given, [AccountEmail |-> built.value])
                            ELSE given
        IN  IF Get(account_info, "BypassCreation", "") = "false"
            THEN LET validated == validate_ou_in_config(
                                      org, account_info.ManagedOrganizationalUnit)
                     updated == update_account_config_file(
                                    accounts, account_info, update_needed = "true")
                     looked == status("CreateAccount", [given |-> FALSE],
                                      notfound, "InProgress")
                 IN  IF validated # "ok"
                     THEN Effects(Raise(validated, account_info.ManagedOrganizationalUnit),
                                  accounts, FALSE)
                     ELSE IF updated.outcome # "ok"
                     THEN Effects(Raise(updated.outcome, account_info.AccountName),
                                  accounts, FALSE)
                     ELSE IF ~push_ok
                     THEN Effects(Raise("GitCommandError", "push"), accounts, FALSE)
                     ELSE IF looked.result = "TypeError"
                     THEN Effects(Raise("TypeError", "__init__() missing arguments"),
                                  updated.file, TRUE)
                     ELSE Effects(
                              Return([CodePipeline |->
                                          [CodePipelineRunStatus   |-> looked.result,
                                           CodePipelineExecutionId |-> "exec-1"],
                                      ServiceCatalogEvent |->
                                          [ServiceCatalogRunStatus |->
                                               IF update_needed # ""
                                               THEN "Update" ELSE "Create"],
                                      AccountInfo |-> account_info]),
                              updated.file, TRUE)
            ELSE Effects(Return([AccountInfo |-> account_info]), accounts, FALSE)

\* a handler that answers with the payload it has built when something raised
CreateAccountReturnsOnError(event, environ, org, accounts, push_ok, notfound) ==
    LET body == CreateAccountBody(event, environ, org, accounts, push_ok, notfound)
    IN  IF body.out.raised
        THEN [body EXCEPT !.out = Return([AccountInfo |-> None])]
        ELSE body

\* lambda_handler: `except Exception as e: raise TypeError(str(e)) from e`
CreateAccount(event, environ, org, accounts, push_ok, notfound) ==
    LET body == CreateAccountBody(event, environ, org, accounts, push_ok, notfound)
    IN  IF body.out.raised
        THEN [body EXCEPT !.out = Raise("TypeError", body.out)]
        ELSE body

\* a call the handler makes on the creation path, and whether it returned
Step(call, ok) == [call |-> call, ok |-> ok]

RECURSIVE UntilFailure(_)
\* the calls made: every call up to and including the first one that raises
UntilFailure(steps) ==
    IF steps = <<>> THEN <<>>
    ELSE IF ~Head(steps).ok THEN <<Head(steps)>>
    ELSE <<Head(steps)>> \o UntilFailure(Tail(steps))

\* a handler that starts the pipeline before it pushes the file
CreateAccountStartsBeforePush(event, environ, org, accounts, push_ok, notfound) ==
    LET body == CreateAccountBody(event, environ, org, accounts, push_ok, notfound)
    IN  IF body.out.raised /\ ~body.started
        THEN <<Step("start_execution", TRUE)>>
        ELSE <<Step("start_execution", TRUE), Step("push", TRUE)>>

\* lambda_handler, creation path: the calls on the store and the pipeline in
\* the order the handler makes them
CreateAccountSteps(event, environ, org, accounts, push_ok, notfound) ==
    IF ~HasKey(event, "Payload") /\ ~HasKey(event, "AccountInfo")
    THEN <<>>
    ELSE
    LET given == IF HasKey(event, "Payload")
                 THEN event.Payload.AccountInfo ELSE event.AccountInfo
        update_needed == Get(given, "ForceUpdate", "false")
        no_email == Get(given, "AccountEmail", "") = ""
        built == build_root_email_address(given.AccountName, environ)
    IN  IF no_email /\ built.raised
        THEN <<>>
        ELSE
        LET account_info == IF no_email
                            THEN Update(given, [AccountEmail |-> built.value])
                            ELSE given
        IN  IF Get(account_info, "BypassCreation", "") = "false"
            THEN UntilFailure(
                     <<Step("clone", TRUE),
                       Step("validate_ou_in_config",
                            validate_ou_in_config(
                                org, account_info.ManagedOrganizationalUnit) = "ok"),
                       Step("update_account_config_file",
                            update_account_config_file(
                                accounts, account_info,
                                update_needed = "true").outcome = "ok"),
                       Step("create_commit", TRUE),
                       Step("push", push_ok),
                       Step("start_execution", TRUE),
                       Step("status",
                            status("CreateAccount", [given |-> FALSE],
                                   notfound, "InProgress").result # "TypeError")>>)
            ELSE <<>>

CreateAccountNames == {"Finance", "Dev Team 1"}

CreateAccountEmails == {"", "owner@example.com"}

\* what the starters pass on as BypassCreation: params.get('bypass_creation',
\* "false"), whatever string the caller wrote
BypassFlags ==
    {Get(params, "bypass_creation", "false") :
        params \in {<<>>} \cup {[bypass_creation |-> f] : f \in {"false", "true", "True"}}}

\* AccountInfo with and without AccountEmail, ForceUpdate and BypassCreation
CreateAccountInfos ==
    {Update(Update(Update([AccountName |-> name, ManagedOrganizationalUnit |-> ou],
                          bypass), email), force) :
        name \in CreateAccountNames, ou \in {"NewOU", "Sandbox"},
        bypass \in {<<>>} \cup {[BypassCreation |-> f] : f \in BypassFlags},
        email \in {<<>>} \cup {[AccountEmail |-> e] : e \in CreateAccountEmails},
        force \in {<<>>} \cup {[ForceUpdate |-> f] : f \in {"false", "true"}}}

CreateEvents ==
    {[AccountInfo |-> info] : info \in CreateAccountInfos}
    \cup {[Payload |-> [AccountInfo |-> info]] : info \in CreateAccountInfos}
    \cup {[Other |-> "x"]}

\* os.environ: both variables, the domain written with its '@', one missing
CreateEnvirons ==
    {[ROOT_EMAIL_PREFIX |-> "aws", ROOT_EMAIL_DOMAIN |-> "example.com"],
     [ROOT_EMAIL_PREFIX |-> "aws", ROOT_EMAIL_DOMAIN |-> "@example.com"],
     [ROOT_EMAIL_PREFIX |-> "aws"],
     [ROOT_EMAIL_DOMAIN |-> "example.com"]}

InitCreate ==
    /\ create_call \in
           [event : CreateEvents, environ : CreateEnvirons,
            org : {[organizationalUnits |-> <<[name |-> "OldOU"], [name |-> "NewOU"]>>]},
            accounts : {[layout |-> "authored", workloadAccounts |-> d] :
                            d \in {<<>>, <<Authored("Finance")>>}},
            push_ok : BOOLEAN, notfound : {0, HardCodedAttempts + 1},
            execution : {1}, done : {FALSE}, effects : {None}, steps : {<<>>}]
    /\ GateCallIdle
    /\ RespondCallIdle
    /\ WfIdle
    /\ StepIdle
    /\ NamerIdle
    /\ StartIdle
    /\ MergeIdle
    /\ GateIdle
    /\ FrameIdle
    /\ ApiIdle

CallCreateAccount ==
    /\ create_call # Unused
    /\ ~create_call.done
    /\ create_call' = [create_call EXCEPT
                          !.done = TRUE,
                          !.effects = CreateAccount(
                                          create_call.event, create_call.environ,
                                          create_call.org, create_call.accounts,
                                          create_call.push_ok, create_call.notfound),
                          !.steps = CreateAccountSteps(
                                        create_call.event, create_call.environ,
                                        create_call.org, create_call.accounts,
                                        create_call.push_ok, create_call.notfound)]
    /\ UNCHANGED <<gate_call, respond_call, wf_run, notCallVars>>

NextCreate == CallCreateAccount

SpecCreate == InitCreate /\ [][NextCreate]_vars

CreateDone == create_call # Unused /\ create_call.done

\* the AccountInfo the request carries
GivenInfo(call) ==
    IF HasKey(call.event, "Payload") THEN call.event.Payload.AccountInfo
    ELSE call.event.AccountInfo

CarriesEmail(call) == Get(GivenInfo(call), "AccountEmail", "") # ""

CharAt(s, i) == SubSeq(s, i, i)

\* t is s with every space turned into a hyphen
Hyphenated(s, t) ==
    /\ Len(t) = Len(s)
    /\ \A i \in 1..Len(s) : CharAt(t, i) = (IF CharAt(s, i) = " " THEN "-" ELSE CharAt(s, i))

\* s without its '@' characters, taken from the right
RECURSIVE WithoutAt(_)
WithoutAt(s) ==
    IF Len(s) = 0 THEN ""
    ELSE WithoutAt(SubSeq(s, 1, Len(s) - 1))
         \o (IF CharAt(s, Len(s)) = "@" THEN "" ELSE CharAt(s, Len(s)))

\* email is prefix, '+', the hyphenated name, '@', the domain without '@'
WellBuilt(email, prefix, name, domain) ==
    LET p == Len(prefix)
        n == Len(name)
    IN  /\ Len(email) = p + 1 + n + 1 + Len(WithoutAt(domain))
        /\ SubSeq(email, 1, p) = prefix
        /\ CharAt(email, p + 1) = "+"
        /\ Hyphenated(name, SubSeq(email, p + 2, p + 1 + n))
        /\ CharAt(email, p + n + 2) = "@"
        /\ SubSeq(email, p + n + 3, Len(email)) = WithoutAt(domain)

(***************************************************************************)
(* C27: when CreateAccount returns for a request without an email, the     *)
(* AccountInfo it passes on, and the entry it has written, carry the email *)
(* prefix + '+' + name with hyphens for spaces + '@' + domain without '@', *)
(* a function of name, prefix and domain only; when the request carries an *)
(* email, that email is passed on and written unchanged.                   *)
(***************************************************************************)
WrittenEntries(call) ==
    {call.effects.file.workloadAccounts[i] :
        i \in {j \in 1..Len(call.effects.file.workloadAccounts) :
                  /\ call.effects.file.layout = "dumped"
                  /\ call.effects.file.workloadAccounts[j].name
                         = GivenInfo(call).AccountName}}

C27_EmailBuiltWhenAbsent ==
    (CreateDone /\ ~create_call.effects.out.raised) =>
        LET info  == GivenInfo(create_call)
            email == create_call.effects.out.value.AccountInfo.AccountEmail
        IN  /\ CarriesEmail(create_call) => email = info.AccountEmail
            /\ ~CarriesEmail(create_call) =>
                   WellBuilt(email, create_call.environ.ROOT_EMAIL_PREFIX,
                             info.AccountName, create_call.environ.ROOT_EMAIL_DOMAIN)
            /\ \A entry \in WrittenEntries(create_call) : entry.email = email

\* a name with spaces, no email in the request, the domain given with '@',
\* and the entry written
C27_Witness ==
    /\ CreateDone
    /\ ~create_call.effects.out.raised
    /\ ~CarriesEmail(create_call)
    /\ GivenInfo(create_call).AccountName = "Dev Team 1"
    /\ create_call.environ.ROOT_EMAIL_DOMAIN = "@example.com"
    /\ create_call.effects.out.value.AccountInfo.AccountEmail = "aws+Dev-Team-1@example.com"
    /\ WrittenEntries(create_call) # {}

(***************************************************************************)
(* Specification of the CreateAccount, GetAccountStatus and                *)
(* ValidateResources handlers, each invoked once on one of its inputs.     *)
(***************************************************************************)
InitHandlers == InitCreate \/ InitStatus \/ InitValidate

NextHandlers ==
    \/ CallCreateAccount
    \/ CallGetAccountStatus
    \/ CallValidateResources

SpecHandlers == InitHandlers /\ [][NextHandlers]_vars

ValDone == val_call # Unused /\ val_call.done

\* what leaves the handler, given what its try block came to: the exception
\* as a TypeError that carries it, or else the payload
Wrapped(body, out) ==
    IF body.raised
    THEN out.raised /\ out.type = "TypeError" /\ out.args = body
    ELSE out = body

json_dumps(doc) == [json |-> doc]

json_loads(text) == text.json

\* helper.send_sns_message: the publish request
send_sns_message(error, account_name) ==
    [op      |-> "publish",
     Message |-> error,
     Subject |-> "Attention !! Failure during creating AWS Account - "
                 \o account_name \o "."]

\* the raise put in front of the notification
ReturnResponseRaisesFirst(event) ==
    IF Get(event.StageInput, "Error", "") # ""
    THEN LET errorMessage == json_loads(event.StageInput.Cause).errorMessage
         IN  <<[op |-> "raise",
                exception |-> Raise("TypeError",
                                 Raise("StepFunctionTaskFailureException",
                                       <<"A task in the account creation step function failed: ",
                                         errorMessage>>))]>>
    ELSE <<[op |-> "return",
            value |-> event.StageInput.Payload.Account.Outputs.AccountId]>>

\* lambda_handler: the steps it takes, the last of them a return or a raise
ReturnResponse(event) ==
    IF Get(event.StageInput, "Error", "") # ""
    THEN LET errorMessage == json_loads(event.StageInput.Cause).errorMessage
             account_info == event.OriginalInput.AccountInfo
         IN  <<send_sns_message(errorMessage, account_info.AccountName),
               [op |-> "raise",
                exception |-> Raise("TypeError",
                                 Raise("StepFunctionTaskFailureException",
                                       <<"A task in the account creation step function failed: ",
                                         errorMessage>>))]>>
    ELSE <<[op |-> "return",
            value |-> event.StageInput.Payload.Account.Outputs.AccountId]>>

ErrorMessages ==
    {"Unable to find provisioned product", "There is a problem with the product",
     "MatchingAccountNameInConfigException", "'AccountInfo'", "boom",
     "Task timed out after 900.00 seconds"}

\* the input of the state that failed, as the state machine's catch hands it
\* on: the error name and the JSON text of the Lambda error object
ErrorStageInputs ==
    {[Error |-> e,
      Cause |-> json_dumps([errorMessage |-> m, errorType |-> e])] :
        m \in ErrorMessages, e \in {"TypeError", "Sandbox.Timedout"}}

\* the output of the last state of a run that went through
SuccessStageInputs ==
    {[Payload |-> [Account |-> [Status |-> st,
                                Outputs |-> [AccountId |-> id[1],
                                             ProvisionedProductId |-> id[2]]]]] :
        st \in {"SUCCESS", "BYPASSED"},
        id \in {<<"111111111111", "pp-1">>, <<"222222222222", "pp-2">>}}

RespondEvents ==
    [StageInput    : ErrorStageInputs \cup SuccessStageInputs,
     OriginalInput : {[AccountInfo |-> [AccountName |-> name]] :
                          name \in {"Finance", "Dev", "Dev Team 1", "Sandbox-01", "Audit"}}]

InitRespond ==
    /\ respond_call \in [event : RespondEvents, done : {FALSE}, steps : {<<>>}]
    /\ GateCallIdle
    /\ CreateCallIdle
    /\ WfIdle
    /\ StepIdle
    /\ NamerIdle
    /\ StartIdle
    /\ MergeIdle
    /\ GateIdle
    /\ FrameIdle
    /\ ApiIdle

CallReturnResponse ==
    /\ respond_call # Unused
    /\ ~respond_call.done
    /\ respond_call' = [respond_call EXCEPT
                           !.done = TRUE,
                           !.steps = ReturnResponse(respond_call.event)]
    /\ UNCHANGED <<gate_call, create_call, wf_run, notCallVars>>

NextRespond == CallReturnResponse

SpecRespond == InitRespond /\ [][NextRespond]_vars

RespondDone == respond_call # Unused /\ respond_call.done

ErrorInput(call) == "Error" \in DOMAIN call.event.StageInput

Publishes(steps) == {i \in 1..Len(steps) : steps[i].op = "publish"}

RunTimeoutMinutes == 180

\* minutes that pass between two observations of the clock
TickMinutes == 30

LambdaStates ==
    {"CheckForRunningProcesses", "CreateAccount", "GetAccountStatus",
     "CreateAdditionalResources", "ValidateResources", "AzureADGroupSync",
     "ValidateAdGroupSyncToSSO", "AttachPermissionSet"}

\* the state machine's choice after ValidateResources: check again while the
\* validation is in progress, else the directory states when the request
\* has ADIntegration, else the response
AfterValidateResources(validation_status, ad) ==
    IF validation_status = "InProgress" THEN "ValidateResources"
    ELSE IF ad THEN "AzureADGroupSync" ELSE "ReturnResponse"

\* the states that have one successor
AfterState(state) ==
    CASE state = "CreateAccount"             -> "GetAccountStatus"
      [] state = "CreateAdditionalResources" -> "ValidateResources"
      [] state = "AzureADGroupSync"          -> "ValidateAdGroupSyncToSSO"
      [] state = "AttachPermissionSet"       -> "ReturnResponse"

\* the states a handler's answer can lead to
Successors(run) ==
    CASE run.state = "CheckForRunningProcesses" ->
             {AfterGateCheck(result) : result \in {{}, {<<"CodePipeline", "AWSAccelerator-Pipeline">>}}}
      [] run.state = "GetAccountStatus" ->
             {AfterGetAccountStatus([Status |-> st]) : st \in {"UNDER_CHANGE", "SUCCESS", "BYPASSED"}}
      [] run.state = "ValidateResources" ->
             {AfterValidateResources(st, run.ad) : st \in {"InProgress", "COMPLETED"}}
      [] run.state = "ValidateAdGroupSyncToSSO" ->
             {AfterAdSyncCheck([AzureAD |-> [WaitForAdSync |-> w]]) :
                 w \in {b \in BOOLEAN : b => run.waits + 1 <= WAIT_LIMIT}}
      [] OTHER -> {AfterState(run.state)}

InitRun ==
    /\ wf_run \in [state : {"CheckForRunningProcesses"}, status : {"RUNNING"},
                   elapsed : {0}, waits : {0}, error : {FALSE}, published : {0},
                   ad : BOOLEAN]
    /\ GateCallIdle
    /\ CreateCallIdle
    /\ RespondCallIdle
    /\ StepIdle
    /\ NamerIdle
    /\ StartIdle
    /\ MergeIdle
    /\ GateIdle
    /\ FrameIdle
    /\ ApiIdle

Running == wf_run # Unused /\ wf_run.status = "RUNNING"

\* a handler returns and the state machine moves on, or comes back to the
\* same state after its wait
StateReturns ==
    /\ Running
    /\ wf_run.state \in LambdaStates
    /\ \E next \in Successors(wf_run) :
          wf_run' = [wf_run EXCEPT
                        !.state = next,
                        !.waits = IF wf_run.state = "ValidateAdGroupSyncToSSO"
                                     /\ next = "ValidateAdGroupSyncToSSO"
                                  THEN @ + 1 ELSE @]
    /\ UNCHANGED <<gate_call, create_call, respond_call, notCallVars>>

\* a handler raises its TypeError: the failure is delivered to ReturnResponse
StateRaises ==
    /\ Running
    /\ wf_run.state \in LambdaStates
    /\ wf_run' = [wf_run EXCEPT !.state = "ReturnResponse", !.error = TRUE]
    /\ UNCHANGED <<gate_call, create_call, respond_call, notCallVars>>

\* ReturnResponse: publish and raise on an error input, return otherwise
Respond ==
    /\ Running
    /\ wf_run.state = "ReturnResponse"
    /\ wf_run' = IF wf_run.error
                 THEN [wf_run EXCEPT !.published = 1, !.status = "FAILED"]
                 ELSE [wf_run EXCEPT !.status = "SUCCEEDED"]
    /\ UNCHANGED <<gate_call, create_call, respond_call, notCallVars>>

\* time passes, in a wait between two polls or inside a task
Tick ==
    /\ Running
    /\ wf_run.elapsed < RunTimeoutMinutes
    /\ wf_run' = [wf_run EXCEPT !.elapsed = @ + TickMinutes]
    /\ UNCHANGED <<gate_call, create_call, respond_call, notCallVars>>

\* an executor without a timeout
NeverTimesOut ==
    /\ FALSE
    /\ UNCHANGED vars

\* the executor ends a run that has been running for the timeout
TimesOut ==
    /\ Running
    /\ wf_run.elapsed >= RunTimeoutMinutes
    /\ wf_run' = [wf_run EXCEPT !.status = "TIMED_OUT"]
    /\ UNCHANGED <<gate_call, create_call, respond_call, notCallVars>>

\* an operator stops the run at the executor
StopExecution ==
    /\ Running
    /\ wf_run' = [wf_run EXCEPT !.status = "ABORTED"]
    /\ UNCHANGED <<gate_call, create_call, respond_call, notCallVars>>

NextRun ==
    \/ StateReturns
    \/ StateRaises
    \/ Respond
    \/ Tick
    \/ TimesOut
    \/ StopExecution

SpecRun == InitRun /\ [][NextRun]_vars

\* the clock advances and the executor acts on its timeout
FairSpecRun == SpecRun /\ WF_vars(Tick) /\ WF_vars(TimesOut)

(***************************************************************************)
(* C25: a run whose execution status is FAILED, ABORTED (stopped) or       *)
(* TIMED_OUT has had a failure notification published.                     *)
(***************************************************************************)
C25_NoSilentFailure ==
    (wf_run # Unused /\ wf_run.status \in {"FAILED", "ABORTED", "TIMED_OUT"})
        => wf_run.published > 0

(***************************************************************************)
(* C26: every run eventually leaves the status RUNNING.                    *)
(***************************************************************************)
C26_RunTerminates == <>(wf_run.status # "RUNNING")

\* a run that was still waiting at the gate has been ended by the timeout
C26_Witness ==
    /\ wf_run.status = "TIMED_OUT"
    /\ wf_run.state = "CheckForRunningProcesses"
    /\ wf_run.elapsed >= RunTimeoutMinutes

(***************************************************************************)
(* C28: with the gate configured for the pipeline, once the CreateAccount  *)
(* states of two runs that add entries with different names have both      *)
(* written the accounts document, the stored document holds an entry for   *)
(* each of the two names.                                                  *)
(***************************************************************************)
MergeSucceeded(r) == run_pc[r] \in {"CreateAccountStartExecution", "GetAccountStatus"}

StoredNames ==
    {accounts_file.workloadAccounts[i].name : i \in 1..Len(accounts_file.workloadAccounts)}

C28_NoLostUpdate ==
    \A r, q \in Runs :
        (/\ r # q
         /\ env.LZA_PIPELINE_NAME # ""
         /\ run_info[r].AccountName # run_info[q].AccountName
         /\ MergeSucceeded(r)
         /\ MergeSucceeded(q))
            => {run_info[r].AccountName, run_info[q].AccountName} \subseteq StoredNames

(***************************************************************************)
(* C29: whenever GetAccountStatus returns with Account.Status SUCCESS or   *)
(* BYPASSED, Account.Outputs holds a non-empty AccountId and a non-empty    *)
(* ProvisionedProductId, whatever the status of the product found.         *)
(***************************************************************************)
C29_SuccessCarriesOutputs ==
    (/\ GasDone
     /\ ~gas_call.out.raised
     /\ gas_call.out.value.Account.Status \in {"SUCCESS", "BYPASSED"})
        => /\ gas_call.out.value.Account.Outputs # None
           /\ gas_call.out.value.Account.Outputs.AccountId # ""
           /\ gas_call.out.value.Account.Outputs.ProvisionedProductId # ""

(***************************************************************************)
(* Specification of the CreateAccount and GetAccountStatus handlers on     *)
(* requests with every BypassCreation value the starters pass on.          *)
(***************************************************************************)
GasFlagEvents ==
    [BypassCreation : BypassFlags,
     notfound       : {0},
     final          : {"Succeeded", "InProgress"},
     actions        : {<<>>},
     builds         : {<<>>},
     products       : ListsUpTo(ProvisionedProducts, 1)]

InitStatusFlags ==
    /\ gas_call \in {[event |-> e, done |-> FALSE, out |-> Unused] : e \in GasFlagEvents}
    /\ StatusIdle
    /\ AggIdle
    /\ ValIdle
    /\ AdIdle
    /\ NamerIdle
    /\ StartIdle
    /\ MergeIdle
    /\ GateIdle
    /\ CallIdle

InitFlags == InitCreate \/ InitStatusFlags

NextFlags ==
    \/ CallCreateAccount
    \/ CallGetAccountStatus

SpecFlags == InitFlags /\ [][NextFlags]_vars

(***************************************************************************)
(* C31: CreateAccount returns only after it has taken the creation path    *)
(* (it wrote and started the pipeline) or the bypass path (BypassCreation  *)
(* is 'true'); GetAccountStatus returns only after it has polled the       *)
(* pipeline (BypassCreation is 'false') or with an Account entry in the    *)
(* payload.                                                                *)
(***************************************************************************)
C31_EveryFlagTakesAPath ==
    /\ (CreateDone /\ ~create_call.effects.out.raised) =>
           \/ create_call.effects.started
           \/ Get(GivenInfo(create_call), "BypassCreation", "") = "true"
    /\ (GasDone /\ ~gas_call.out.raised) =>
           \/ gas_call.event.BypassCreation = "false"
           \/ HasKey(gas_call.out.value, "Account")

(***************************************************************************)
(* Specification of the CreateAccount state under at-least-once execution: *)
(* an execution that failed after its push is executed again, on the       *)
(* accounts file the first execution left in the store.                    *)
(***************************************************************************)
FailedAfterTheWrite(call) ==
    /\ call.done
    /\ call.effects.out.raised
    /\ call.effects.started

ReExecuteCreateAccount ==
    /\ create_call # Unused
    /\ FailedAfterTheWrite(create_call)
    /\ create_call' = [create_call EXCEPT
                          !.accounts = create_call.effects.file,
                          !.notfound = 0,
                          !.execution = @ + 1,
                          !.done = FALSE,
                          !.effects = None,
                          !.steps = <<>>]
    /\ UNCHANGED <<gate_call, respond_call, wf_run, notCallVars>>

NextRetry ==
    \/ CallCreateAccount
    \/ ReExecuteCreateAccount

SpecRetry == InitCreate /\ [][NextRetry]_vars

DuplicateEntryError(call) ==
    /\ call.effects.out.raised
    /\ call.effects.out.args.raised
    /\ call.effects.out.args.type = "MatchingAccountNameInConfigException"

(***************************************************************************)
(* C32: a second execution of the CreateAccount state, after the first     *)
(* committed its write, does not raise the duplicate-entry error and       *)
(* leaves exactly one entry for the name.                                  *)
(***************************************************************************)
C32_SecondExecutionIdempotent ==
    (CreateDone /\ create_call.execution = 2) =>
        /\ ~DuplicateEntryError(create_call)
        /\ Cardinality({i \in 1..Len(create_call.effects.file.workloadAccounts) :
               create_call.effects.file.workloadAccounts[i].name
                   = GivenInfo(create_call).AccountName}) = 1

\* the positions of the steps of one kind among the steps of a call
StepsOf(call, kind) == {i \in 1..Len(call.steps) : call.steps[i].call = kind}

(***************************************************************************)
(* C33: one execution of CreateAccount starts the pipeline at most once,   *)
(* and only after validate_ou_in_config, update_account_config_file and    *)
(* push returned; a returned payload with a CodePipeline entry comes from  *)
(* exactly one start_execution, whose id it carries.                       *)
(***************************************************************************)
C33_TriggeredOnceAfterCommit ==
    CreateDone =>
        /\ Cardinality(StepsOf(create_call, "start_execution")) <= 1
        /\ create_call.effects.started <=> StepsOf(create_call, "start_execution") # {}
        /\ \A i \in StepsOf(create_call, "start_execution") :
               \A kind \in {"validate_ou_in_config", "update_account_config_file", "push"} :
                   \E j \in StepsOf(create_call, kind) : j < i /\ create_call.steps[j].ok
        /\ (~create_call.effects.out.raised
              /\ HasKey(create_call.effects.out.value, "CodePipeline")) =>
               /\ Cardinality(StepsOf(create_call, "start_execution")) = 1
               /\ create_call.effects.out.value.CodePipeline.CodePipelineExecutionId
                      = "exec-1"

\* a creation-path execution that returned with the pipeline started
C33_Witness ==
    /\ CreateDone
    /\ ~create_call.effects.out.raised
    /\ HasKey(create_call.effects.out.value, "CodePipeline")
    /\ StepsOf(create_call, "start_execution") # {}
    /\ StepsOf(create_call, "push") # {}

(***************************************************************************)
(* Specification of the payload handed from state to state: the gate, the  *)
(* CreateAccount state and the GetAccountStatus state are invoked on the   *)
(* output of the state before them, the polling states again on their own  *)
(* output.                                                                 *)
(***************************************************************************)
\* AccountInfo as the starters build it
FrameInfos ==
    {Update([AccountName |-> "Finance", SupportDL |-> "owners@example.com",
             ManagedOrganizationalUnit |-> ou,
             AccountTags |-> [vendor |-> "aws", owner |-> "finance"],
             ForceUpdate |-> force, BypassCreation |-> bypass], email) :
        ou \in {"NewOU", "Sandbox"}, force \in {"false", "true"},
        bypass \in {"false", "true"},
        email \in {<<>>, [AccountEmail |-> "owner@example.com"]}}

\* a handler that builds a new payload from the request and its own result
GetAccountStatusFreshPayload(given, event) ==
    LET out == GetAccountStatus(event)
    IN  IF out.raised THEN out
        ELSE Return([AccountInfo |-> given.AccountInfo,
                     Account |-> out.value.Account])

\* lambda_handler on its payload: payload = event['Payload'] is changed in
\* place and returned
GetAccountStatusOnPayload(given, event) ==
    LET out == GetAccountStatus(event)
    IN  IF out.raised THEN out
        ELSE IF event.BypassCreation = "false"
        THEN Return(Update(given,
                 [Account |-> out.value.Account,
                  CodePipeline |-> Update(given.CodePipeline,
                      [CodePipelineRunStatus |-> out.value.CodePipelineRunStatus])]))
        ELSE IF HasKey(out.value, "Account")
        THEN Return(Update(given, [Account |-> out.value.Account]))
        ELSE Return(given)

\* what the services answer to a GetAccountStatus on that payload
FrameGasEvents(given) ==
    [BypassCreation : {Get(given.AccountInfo, "BypassCreation", "")},
     notfound       : {0},
     final          : {"InProgress", "Succeeded", "Stopped"},
     actions        : {<<>>},
     builds         : {<<>>},
     products       : ListsUpTo(ProvisionedProducts, 1)]

InitFrame ==
    /\ frame_run \in [state : {"CheckForRunningProcesses"},
                      event : {[AccountInfo |-> info] : info \in FrameInfos},
                      prior : {<<>>}, repolled : {FALSE}]
    /\ ApiIdle
    /\ CallIdleBut
    /\ StepIdle
    /\ NamerIdle
    /\ StartIdle
    /\ MergeIdle
    /\ GateIdle

\* the payload a state was invoked with
PayloadOf(event) == IF HasKey(event, "Payload") THEN event.Payload ELSE event

\* the state returned out: its output is the next state's event
FrameGoes(out, next) ==
    IF out.raised
    THEN frame_run' = [frame_run EXCEPT !.state = "Failed"]
    ELSE frame_run' = [state |-> next, event |-> [Payload |-> out.value],
                       prior |-> PayloadOf(frame_run.event),
                       repolled |-> frame_run.repolled \/ next = frame_run.state]

FrameCheckForRunningProcesses ==
    /\ frame_run # Unused
    /\ frame_run.state = "CheckForRunningProcesses"
    /\ \E environment \in GateEnvs, pages \in GatePages, execs \in GateExecs,
          cb_ok, cp_ok \in BOOLEAN :
          LET out == CheckForRunningProcessesHandler(
                         frame_run.event, environment, pages, execs, cb_ok, cp_ok)
          IN  FrameGoes(out, IF out.raised THEN "Failed"
                             ELSE AfterGateCheck(out.value.CheckForRunningProcesses))
    /\ UNCHANGED <<api_call, namerVars, startVars, mergeVars, gateVars, stepVars, callVars>>

FrameCreateAccount ==
    /\ frame_run # Unused
    /\ frame_run.state = "CreateAccount"
    /\ \E accounts \in {[layout |-> "authored", workloadAccounts |-> d] :
                            d \in {<<>>, <<Authored("Finance")>>}},
          push_ok \in BOOLEAN, notfound \in {0, HardCodedAttempts + 1} :
          FrameGoes(CreateAccount(
                        frame_run.event,
                        [ROOT_EMAIL_PREFIX |-> "aws", ROOT_EMAIL_DOMAIN |-> "example.com"],
                        [organizationalUnits |-> <<[name |-> "OldOU"], [name |-> "NewOU"]>>],
                        accounts, push_ok, notfound).out,
                    "GetAccountStatus")
    /\ UNCHANGED <<api_call, namerVars, startVars, mergeVars, gateVars, stepVars, callVars>>

FrameGetAccountStatus ==
    /\ frame_run # Unused
    /\ frame_run.state = "GetAccountStatus"
    /\ \E event \in FrameGasEvents(frame_run.event.Payload) :
          LET out == GetAccountStatusOnPayload(frame_run.event.Payload, event)
          IN  FrameGoes(out, IF out.raised THEN "Failed"
                             ELSE AfterGetAccountStatus(out.value.Account))
    /\ UNCHANGED <<api_call, namerVars, startVars, mergeVars, gateVars, stepVars, callVars>>

NextFrame ==
    \/ FrameCheckForRunningProcesses
    \/ FrameCreateAccount
    \/ FrameGetAccountStatus

SpecFrame == InitFrame /\ [][NextFrame]_vars

\* the fields of a payload the later states rely on, as far as it has them
Recorded(p) ==
    Update(Update(
        [k \in {"AccountName", "SupportDL", "ManagedOrganizationalUnit", "AccountTags"}
            |-> p.AccountInfo[k]],
        IF HasKey(p, "CodePipeline")
        THEN [CodePipelineExecutionId |-> p.CodePipeline.CodePipelineExecutionId]
        ELSE <<>>),
        IF HasKey(p, "Account") /\ HasKey(p.Account, "Outputs") /\ p.Account.Outputs # None
        THEN [AccountId |-> p.Account.Outputs.AccountId]
        ELSE <<>>)

MatchingCategories(event) ==
    {i \in 1..Len(event.validate_ou) :
        PyIn(event.validate_ou[i].key, event.manage_ou)}

\* the names configured under one kind of check in the matching entries
ConfiguredNames(event, kind, list) ==
    UNION {LET names == Get(event.validate_ou[i].value, kind, [x \in {list} |-> <<>>])[list]
           IN  {names[j] : j \in 1..Len(names)} : i \in MatchingCategories(event)}

\* the Service names of the checks configured for the request
ConfiguredChecks(event) ==
    {"OrganizationalUnitValidation"}
    \cup {"IAMRoleValidation_" \o n : n \in ConfiguredNames(event, "iam", "roles")}
    \cup {"SsmParameterValidation_" \o n : n \in ConfiguredNames(event, "ssm", "parameters")}
    \cup {"S3BucketValidation_" \o n : n \in ConfiguredNames(event, "s3", "buckets")}

(***************************************************************************)
(* C35: the result list ValidateResources returns holds exactly one result *)
(* for the OU check and for every IAM role, SSM parameter and S3 bucket    *)
(* configured in an entry of validate.yaml that matches the request's      *)
(* placement, whatever the status of the single results.                   *)
(***************************************************************************)
C35_AllConfiguredChecksReported ==
    (ValDone /\ ~val_call.out.raised) =>
        LET results == val_call.out.value.ValidationInformation
        IN  /\ {results[i].Service : i \in 1..Len(results)} = ConfiguredChecks(val_call.event)
            /\ Len(results) = Cardinality(ConfiguredChecks(val_call.event))

(***************************************************************************)
(* C36: a CreateAccount that returns from the creation path records        *)
(* ServiceCatalogRunStatus 'Update' when the request's ForceUpdate is      *)
(* 'true' and 'Create' otherwise.                                          *)
(***************************************************************************)
C36_UpdateIffForceUpdate ==
    (/\ CreateDone
     /\ ~create_call.effects.out.raised
     /\ HasKey(create_call.effects.out.value, "ServiceCatalogEvent")) =>
        create_call.effects.out.value.ServiceCatalogEvent.ServiceCatalogRunStatus
            = (IF Get(GivenInfo(create_call), "ForceUpdate", "false") = "true"
               THEN "Update" ELSE "Create")

(***************************************************************************)
(* The RunStepFunction API handler, invoked once on an event.              *)
(***************************************************************************)
\* a Python int where the code elsewhere holds a dict
PyInt(n) == [py |-> "int", n |-> n]

\* json.loads of the request body; a body that is not JSON raises
ApiLoads(text) ==
    IF HasKey(text, "json") THEN Return(json_loads(text))
    ELSE Raise("JSONDecodeError", "Expecting value")

RECURSIVE StartExecutionLoop(_, _, _, _)
\* the `while True` loop: the name the executor accepts, after a new name
\* for every ExecutionAlreadyExists
StartExecutionLoop(account_name, exec_name, count, taken) ==
    IF exec_name \in taken
    THEN StartExecutionLoop(account_name,
                            RetryName(account_name, count + 1, exec_name),
                            count + 1, taken)
    ELSE exec_name

\* the try block: the response it builds, or the exception it raises
RunStepFunctionTry(params, services) ==
    IF \E key \in {"account_name", "support_dl", "managed_org_unit"} : ~HasKey(params, key)
    THEN Raise("KeyError",
               CHOOSE key \in {"account_name", "support_dl", "managed_org_unit"} :
                   ~HasKey(params, key))
    ELSE IF ~services.sts_ok
    THEN Raise("ClientError", "GetCallerIdentity")
    ELSE IF services.start # "ok"
    THEN Raise("ClientError", services.start)
    ELSE LET exec_name == StartExecutionLoop(
                                 params.account_name,
                                 generate_sf_exec_name(params.account_name, services.listed),
                                 0, services.taken)
         IN  Return([statusCode |-> 200,
                     body |-> json_dumps([StepFunctionExecutionArn |->
                                              "execution:" \o exec_name]),
                     isBase64Encoded |-> FALSE])

\* the except block: f'{"Failure": {err}}' formats the string "Failure" with
\* the format specification ' ' + str(err), which str rejects: ValueError
FailureResponse(err) == Raise("ValueError", "Invalid format specifier")

\* lambda_handler: the body is parsed before the try; `finally: return
\* response` returns whatever response holds and drops a pending exception
RunStepFunction(event, services) ==
    LET loaded == IF HasKey(event, "body") THEN ApiLoads(event.body) ELSE Return(event)
    IN  IF loaded.raised
        THEN loaded
        ELSE LET tried == RunStepFunctionTry(loaded.value, services)
                 built == FailureResponse(tried)
             IN  IF ~tried.raised THEN tried
                 ELSE IF built.raised THEN Return(PyInt(404))
                 ELSE built

ApiParams ==
    {[account_name |-> "Finance", support_dl |-> "owners@example.com",
      managed_org_unit |-> "NewOU"],
     [support_dl |-> "owners@example.com", managed_org_unit |-> "NewOU"],
     [account_name |-> "Finance", support_dl |-> "owners@example.com"]}

\* through API Gateway (a body), invoked directly, and a body that is no JSON
ApiEvents ==
    {[body |-> json_dumps(params)] : params \in ApiParams}
    \cup ApiParams
    \cup {[body |-> [text |-> "{"]]}

ApiServices ==
    [listed : SUBSET {"Finance", "Finance-01"},
     taken  : SUBSET {"Finance", "Finance-01"},
     start  : {"ok", "AccessDeniedException"},
     sts_ok : BOOLEAN]

InitApi ==
    /\ api_call \in [event : ApiEvents, services : ApiServices,
                     done : {FALSE}, out : {None}]
    /\ FrameIdle
    /\ CallIdleBut
    /\ StepIdle
    /\ NamerIdle
    /\ StartIdle
    /\ MergeIdle
    /\ GateIdle

CallRunStepFunction ==
    /\ api_call # Unused
    /\ ~api_call.done
    /\ api_call' = [api_call EXCEPT
                       !.done = TRUE,
                       !.out = RunStepFunction(api_call.event, api_call.services)]
    /\ UNCHANGED <<frame_run, namerVars, startVars, mergeVars, gateVars, stepVars, callVars>>

NextApi == CallRunStepFunction

SpecApi == InitApi /\ [][NextApi]_vars

ApiDone == api_call # Unused /\ api_call.done

(***************************************************************************)
(* C37: RunStepFunction never raises; what it returns has a statusCode and *)
(* a body, the statusCode being 200 exactly when the execution was started *)
(* (the body then holds the execution ARN).                                *)
(***************************************************************************)
C37_AlwaysAnApiResponse ==
    ApiDone =>
        /\ ~api_call.out.raised
        /\ HasKey(api_call.out.value, "statusCode")
        /\ HasKey(api_call.out.value, "body")
        /\ api_call.out.value.statusCode = 200 <=>
               /\ HasKey(api_call.out.value.body, "json")
               /\ HasKey(json_loads(api_call.out.value.body), "StepFunctionExecutionArn")

====
